---- MODULE Spec2Model ----
(***************************************************************************)
(* A model of the Micro Transformer forward-pass engine                    *)
(* (include/transformer.h, src/{matrix,attention,layers,encoder,           *)
(* benchmark}.cpp).                                                        *)
(*                                                                         *)
(* The specifications of the module share its variables; each leaves the  *)
(* variables of the others at rest:                                        *)
(*   Spec        the encoder: construction, Encoder.forward on both paths, *)
(*               stepped statement by statement, with the shape of every   *)
(*               intermediate matrix, the fork/join of the OpenMP task     *)
(*               regions and a log of every parallel region engaged;       *)
(*   SpecVerify  PerformanceBenchmark::verify_numerical_correctness on     *)
(*               small matrices of IEEE values (finite, +-Inf, NaN);       *)
(*   SpecKernel  Matrix::operator* at the level of cells, the iterations   *)
(*               of its parallel loop run by the workers in any order,     *)
(*               with single-precision rounding of every add and multiply; *)
(*   SpecSerial  Encoder.forward on the serial path at the level of cells, *)
(*               every loop of every statement run iteration by iteration, *)
(*               together with SpecKernel;                                 *)
(*   SpecHeads, SpecBlocked, SpecRandomize, SpecMatrix, SpecComponent,     *)
(*   SpecRegion, SpecSoftmax, SpecFair: see their sections.                *)
(***************************************************************************)
EXTENDS Integers, Sequences, FiniteSets, TLC

(***************************************************************************)
(* Bounds of the model.                                                    *)
(***************************************************************************)
MaxLayers == 2      \* num_layers ranges over 0..MaxLayers
MaxThreads == 2     \* omp_set_num_threads(n), n in 1..MaxThreads
MaxCalls == 2       \* forward calls made on one encoder

(***************************************************************************)
(* Program constants.                                                      *)
(***************************************************************************)
PAR_THRESHOLD == 1000   \* if (rows * cols [* inner] > 1000)
BLOCK_SIZE == 64        \* const size_t BLOCK_SIZE = 64

(***************************************************************************)
(* Hyperparameter values the configurations are drawn from.  64 reaches    *)
(* BLOCK_SIZE; 10 and 3 are the spec's invalid-divisibility scenario.      *)
(***************************************************************************)
SeqLengths == {1, 2, BLOCK_SIZE}
EmbedDims == {2, 4, 10}
HeadCounts == {1, 2, 3}
FfDims == {1, 8}

\* struct TransformerConfig
TransformerConfig ==
    [seq_length : SeqLengths, embed_dim : EmbedDims, num_heads : HeadCounts,
     ff_dim : FfDims, num_layers : 0..MaxLayers]

VARIABLES
    \* ---- Spec: the encoder ----
    config,          \* the TransformerConfig handed to the constructor
    num_threads,     \* the OpenMP thread count (Utils::set_thread_count)
    encoder,         \* "none" | "built" | "config_error"
    layers_,         \* TransformerEncoder::layers_.size()
    pc,              \* position inside Encoder.forward
    call,            \* the running / last forward call: input shape and flag
    calls,           \* forward calls made so far
    layer_i,         \* loop index i of forward_serial / forward_parallel
    current_output,  \* Matrix current_output
    frame,           \* the locals of the running layer and attention forward
    pending,         \* tasks of the open task region not yet run
    regions,         \* parallel regions engaged during the call
    layer_log,       \* layer forwards invoked during the call
    result,          \* what the last call returned or threw
    assigned,        \* the matrices assigned to since construction: <<layer, name>>
    \* ---- SpecVerify: verify_numerical_correctness ----
    vA,              \* serial_result
    vB,              \* parallel_result
    vTol,            \* tolerance
    vDone,           \* the call has been made
    vRet,            \* the bool it returned
    \* ---- SpecKernel: Matrix::operator* cell by cell ----
    kShape,          \* <<rows_, cols_, other.cols_>> of the operands
    kBig,            \* per row of *this, the column that holds 2^24 (-1: none)
    kB,              \* per column of other, the value that fills it
    kPhase,          \* "idle" | "running": inside the parallel loop ("none" at rest)
    kPending,        \* iterations of the loop not yet run
    kOut,            \* Matrix result, cell by cell
    kCalls,          \* multiplications made so far
    kFirst,          \* the result the first multiplication returned
    \* ---- SpecHeads: split_heads followed by concat_heads ----
    hCfg,            \* config_ of the MultiHeadAttention that owns the helpers
    hInPar,          \* omp_in_parallel() in the thread that calls the helpers
    hM,              \* the (seq_length, embed_dim) matrix handed to split_heads
    hHeads,          \* std::vector<Matrix> heads
    hOut,            \* Matrix result of concat_heads
    hPhase,          \* "start" | "split" | "between" | "concat" | "done"
    hPending,        \* iterations <<h, i>> of the running loop not yet run
    \* ---- SpecBlocked: Matrix::multiply_blocked cell by cell ----
    bShape,          \* <<rows_, cols_, other.cols_>> of the operands
    bBig,            \* per row of *this, the column that holds 2^24 (-1: none)
    bB,              \* per column of other, the value that fills it
    bInPar,          \* omp_in_parallel() in the thread that calls multiply_blocked
    bPhase,          \* "start" | "running" | "done"
    bPending,        \* iterations of the running loop not yet run
    bOut,            \* Matrix result, cell by cell
    \* ---- SpecRandomize: Matrix::randomize ----
    rSize,           \* data_.size()
    rPhase,          \* "start" | "region" | "done"
    rPc,             \* per thread of the team: "start" | "seeded" | "done"
    rSeed,           \* per thread of the team: the seed of its local_gen
    rAccess,         \* which thread has used which random-number object
    rData,           \* per element of data_: the thread that wrote it (-1: none)
    \* ---- SpecMatrix: Matrix objects, their constructors and operations ----
    mObj,            \* per variable of type Matrix: rows_, cols_, data_
    mPrev,           \* mObj before the last operation
    mLast,           \* the last operation: what, on which variables, thrown or not
    mOps,            \* operations made so far
    \* ---- SpecComponent: one component's forward called directly ----
    cCfg,            \* config_ of the component
    cCall,           \* the call: component, input shape, use_parallel
    cPc,             \* the statement the call is at
    cLocal,          \* shapes of the matrices the call has built so far
    cBad,            \* element accesses made outside a buffer
    cEnd,            \* how the call ended
    \* ---- SpecRegion: the iterations of one parallel region ----
    wRegion,         \* the construct and the sizes of its loop
    wPhase,          \* "outside", "inside" the region, "joined"
    wPending,        \* iterations (sections) not yet run
    wReads,          \* per thread: the cells it has read in the region
    wWrites,         \* per thread: the cells it has written in the region
    \* ---- SpecSoftmax: scaled_dot_product_attention's scores and softmax ----
    sIn,             \* scores, as handed to softmax
    sPar,            \* use_parallel
    sPhase,          \* position in scaled_dot_product_attention
    sPending,        \* rows of softmax not yet run
    sMax,            \* per finished row: max_val
    sArg,            \* per finished row: the arguments of std::exp, by column
    sDen,            \* per finished row: the cells whose exponentials sum holds
    sLog,            \* the operations made on the scores, in order
    \* ---- SpecSerial: Encoder.forward on the serial path, cell by cell ----
    pCfg,            \* config_ of the encoder
    pCalls,          \* forward calls made so far
    pPc,             \* the statement of the forward pass the call is at
    pPhase,          \* "idle" | "at" a statement | in its "loop"
    pPending,        \* iterations of the running loop not yet run
    pMem,            \* the live matrices, by name: rows_, cols_, data_
    pTable,          \* the float values computed so far, by the expression
                     \* that produced each
    pOut,            \* what the last call returned
    pFirst           \* what the first call returned

encVars == <<config, num_threads, encoder, layers_, pc, call, calls, layer_i,
             current_output, frame, pending, regions, layer_log, result,
             assigned>>

verifyVars == <<vA, vB, vTol, vDone, vRet>>

kernelVars == <<kShape, kBig, kB, kPhase, kPending, kOut, kCalls, kFirst>>

\* the encoder's variables but the process-wide thread count
encObjVars == <<config, encoder, layers_, pc, call, calls, layer_i,
                current_output, frame, pending, regions, layer_log, result,
                assigned>>

headVars == <<hCfg, hInPar, hM, hHeads, hOut, hPhase, hPending>>

blockedVars == <<bShape, bBig, bB, bInPar, bPhase, bPending, bOut>>

randVars == <<rSize, rPhase, rPc, rSeed, rAccess, rData>>

matrixVars == <<mObj, mPrev, mLast, mOps>>

componentVars == <<cCfg, cCall, cPc, cLocal, cBad, cEnd>>

regionVars == <<wRegion, wPhase, wPending, wReads, wWrites>>

softmaxVars == <<sIn, sPar, sPhase, sPending, sMax, sArg, sDen, sLog>>

pathVars == <<pCfg, pCalls, pPc, pPhase, pPending, pMem, pTable, pOut, pFirst>>

\* what the actions of each specification leave alone
notEncVars == <<verifyVars, kernelVars, headVars, blockedVars, randVars,
    matrixVars, componentVars,
    regionVars,
    softmaxVars, pathVars>>
notVerifyVars == <<encVars, kernelVars, headVars, blockedVars, randVars,
    matrixVars, componentVars,
    regionVars,
    softmaxVars, pathVars>>
notKernelVars == <<encObjVars, verifyVars, headVars, blockedVars, randVars,
    matrixVars, componentVars,
    regionVars,
    softmaxVars, pathVars>>
notHeadVars == <<encVars, verifyVars, kernelVars, blockedVars, randVars,
    matrixVars, componentVars,
    regionVars,
    softmaxVars, pathVars>>
notBlockedVars == <<encVars, verifyVars, kernelVars, headVars, randVars,
    matrixVars, componentVars,
    regionVars,
    softmaxVars, pathVars>>
notRandVars == <<encVars, verifyVars, kernelVars, headVars, blockedVars,
    matrixVars, componentVars,
    regionVars,
    softmaxVars, pathVars>>
notMatrixVars == <<encVars, verifyVars, kernelVars, headVars, blockedVars,
    randVars, componentVars, regionVars,
    softmaxVars, pathVars>>
notComponentVars == <<encVars, verifyVars, kernelVars, headVars, blockedVars,
    randVars, matrixVars, regionVars,
    softmaxVars, pathVars>>
notRegionVars == <<encObjVars, verifyVars, kernelVars, headVars, blockedVars,
    randVars, matrixVars, componentVars, softmaxVars, pathVars>>
notSoftmaxVars == <<encVars, verifyVars, kernelVars, headVars, blockedVars,
    randVars, matrixVars, componentVars, regionVars, pathVars>>
notPathVars == <<encObjVars, verifyVars, kernelVars, headVars, blockedVars,
    randVars, matrixVars, componentVars, regionVars, softmaxVars>>

vars == <<encVars, verifyVars, kernelVars, headVars, blockedVars, randVars,
    matrixVars, componentVars, regionVars,
    softmaxVars, pathVars>>

(***************************************************************************)
(* Matrices of the encoder specification: a shape and a symbolic value.    *)
(* Shapes are <<rows, cols>>; BadShape stands for the std::invalid_argument *)
(* a primitive throws.                                                     *)
(***************************************************************************)
BadShape == <<-1, -1>>

\* A symbolic value: which component produced it from which operands.
Term(op, id, args) == [op |-> op, id |-> id, args |-> args]

InputTerm == Term("input", 0, <<>>)
NoTerm == Term("none", 0, <<>>)

Mat(shape, val) == [shape |-> shape, val |-> val]
NoMat == Mat(<<0, 0>>, NoTerm)

\* Matrix::operator* and Matrix::multiply_blocked: the shape check and the result shape
MulShape(a, b) ==
    IF a = BadShape \/ b = BadShape \/ a[2] # b[1] THEN BadShape
    ELSE <<a[1], b[2]>>

\* Matrix::operator+
AddShape(a, b) ==
    IF a = BadShape \/ b = BadShape \/ a # b THEN BadShape ELSE a

\* Matrix::transpose
TransposeShape(a) == IF a = BadShape THEN BadShape ELSE <<a[2], a[1]>>


(***************************************************************************)
(* Weight shapes, fixed by the constructors.                               *)
(***************************************************************************)
\* MultiHeadAttention: W_q_, W_k_, W_v_, W_o_ are (embed_dim, embed_dim)
AttnWeightShape(cfg) == <<cfg.embed_dim, cfg.embed_dim>>

\* MultiHeadAttention: head_dim_(config.embed_dim / config.num_heads)
HeadDim(cfg) == cfg.embed_dim \div cfg.num_heads

\* FeedForwardNetwork: W1_(embed_dim, ff_dim)
W1Shape(cfg) == <<cfg.embed_dim, cfg.ff_dim>>

W2Shape_Square(cfg) == <<cfg.ff_dim, cfg.ff_dim>>

\* FeedForwardNetwork: W2_(ff_dim, embed_dim)
W2Shape(cfg) == <<cfg.ff_dim, cfg.embed_dim>>

(***************************************************************************)
(* Construction.                                                           *)
(***************************************************************************)
\* MultiHeadAttention::MultiHeadAttention: throws unless embed_dim % num_heads == 0
AttentionConstructs(cfg) == cfg.embed_dim % cfg.num_heads = 0

\* TransformerEncoder::TransformerEncoder: one TransformerEncoderLayer (and so
\* one MultiHeadAttention) is constructed per i < num_layers; the first throw
\* leaves the constructor.
EncoderConstructs(cfg) ==
    \A i \in 0..(cfg.num_layers - 1) : AttentionConstructs(cfg)

(***************************************************************************)
(* The OpenMP context of a thread and the parallel constructs.             *)
(*   within      the task region the thread runs in: "top" (the caller's   *)
(*               thread, outside every region), "sections" (the Q/K/V      *)
(*               sections), "heads" (the per-head loop);                   *)
(*   in_parallel what omp_in_parallel() returns there: true inside a       *)
(*               region whose team has more than one thread.               *)
(* A region record is logged for every parallel construct whose if clause  *)
(* is true or absent: the construct is engaged.                            *)
(***************************************************************************)
TopCtx == [within |-> "top", in_parallel |-> FALSE]

TeamCtx(name, threads) == [within |-> name, in_parallel |-> threads > 1]

\* nested: omp_in_parallel() held in the thread that met the construct
Region(site, ctx, work) ==
    [site |-> site, within |-> ctx.within, nested |-> ctx.in_parallel,
     work |-> work]

\* Matrix::operator*: #pragma omp parallel for collapse(2) if (rows_ * other.cols_ * cols_ > 1000)
MulRegions(a, b, ctx) ==
    IF MulShape(a, b) # BadShape /\ a[1] * b[2] * a[2] > PAR_THRESHOLD
    THEN {Region("operator*", ctx, a[1] * b[2] * a[2])}
    ELSE {}

Tiled_EveryDimension(a, b) ==
    a[1] >= BLOCK_SIZE /\ b[2] >= BLOCK_SIZE /\ a[2] >= BLOCK_SIZE

\* Matrix::multiply_blocked: the tiled loop when a dimension reaches BLOCK_SIZE
Tiled(a, b) == a[1] >= BLOCK_SIZE \/ b[2] >= BLOCK_SIZE \/ a[2] >= BLOCK_SIZE

\* Matrix::multiply_blocked: #pragma omp parallel for if (!omp_in_parallel()) on the
\* tiled loop; below BLOCK_SIZE it returns (*this) * other
BlockedRegions(a, b, ctx) ==
    IF MulShape(a, b) = BadShape THEN {}
    ELSE IF Tiled(a, b)
         THEN IF ~ctx.in_parallel
              THEN {Region("multiply_blocked", ctx, a[1] * b[2] * a[2])}
              ELSE {}
         ELSE MulRegions(a, b, ctx)

\* Matrix::operator+: #pragma omp parallel for if (rows_ * cols_ > 1000)
AddRegions(a, b, ctx) ==
    IF AddShape(a, b) # BadShape /\ a[1] * a[2] > PAR_THRESHOLD
    THEN {Region("operator+", ctx, a[1] * a[2])}
    ELSE {}

\* Matrix::transpose: #pragma omp parallel for collapse(2) if (rows_ * cols_ > 1000)
TransposeRegions(a, ctx) ==
    IF a[1] * a[2] > PAR_THRESHOLD
    THEN {Region("transpose", ctx, a[1] * a[2])}
    ELSE {}

\* split_heads / concat_heads: #pragma omp parallel for collapse(2) if (!omp_in_parallel())
HeadCopyRegions(site, cfg, ctx) ==
    IF ~ctx.in_parallel
    THEN {Region(site, ctx, cfg.num_heads * cfg.seq_length)}
    ELSE {}

(***************************************************************************)
(* MultiHeadAttention::scaled_dot_product_attention(Q, K, V, use_parallel) *)
(***************************************************************************)
\* scores is (Q.rows, K.rows); softmax keeps the shape; the result is attention_weights * V
SdpaShape(Q, K, V) == MulShape(<<Q[1], K[1]>>, V)

\* K.transpose(), the scores loop, softmax, attention_weights * V
SdpaRegions(Q, K, V, use_parallel, ctx) ==
    TransposeRegions(K, ctx)
    \cup (IF use_parallel
          THEN {Region("sdpa_scores", ctx, Q[1] * K[1]),
                Region("softmax", ctx, Q[1])}
          ELSE {})
    \cup MulRegions(<<Q[1], K[1]>>, V, ctx)


(***************************************************************************)
(* Spec: the encoder.                                                      *)
(***************************************************************************)
NoFrame ==
    [input |-> NoMat, Q |-> <<0, 0>>, K |-> <<0, 0>>, V |-> <<0, 0>>,
     kernel |-> [n \in {"Q", "K", "V"} |-> "none"],
     heads |-> <<0, 0>>, outs |-> <<>>, concat |-> <<0, 0>>,
     attention_output |-> NoMat, residual1 |-> NoMat, norm1_output |-> NoMat,
     ffn_output |-> NoMat, residual2 |-> NoMat]

NoResult == [kind |-> "none", mat |-> NoMat]
NoCall == [shape |-> <<0, 0>>, par |-> FALSE]

\* The variables of the other specifications, at rest.
VerifyAtRest ==
    /\ vA = <<>>
    /\ vB = <<>>
    /\ vTol = 0
    /\ vDone = FALSE
    /\ vRet = FALSE

KernelAtRest ==
    /\ kShape = <<0, 0, 0>>
    /\ kBig = <<>>
    /\ kB = <<>>
    /\ kPhase = "none"
    /\ kPending = {}
    /\ kOut = <<>>
    /\ kCalls = 0
    /\ kFirst = <<>>

HeadsAtRest ==
    /\ hCfg = [seq_length |-> 0, embed_dim |-> 0, num_heads |-> 1]
    /\ hInPar = FALSE
    /\ hM = <<>>
    /\ hHeads = <<>>
    /\ hOut = <<>>
    /\ hPhase = "start"
    /\ hPending = {}

BlockedAtRest ==
    /\ bShape = <<0, 0, 0>>
    /\ bBig = <<>>
    /\ bB = <<>>
    /\ bInPar = FALSE
    /\ bPhase = "start"
    /\ bPending = {}
    /\ bOut = <<>>

RandAtRest ==
    /\ rSize = 0
    /\ rPhase = "start"
    /\ rPc = <<>>
    /\ rSeed = <<>>
    /\ rAccess = {}
    /\ rData = <<>>

\* no Matrix object in a variable
NoObject == [rows |-> -1, cols |-> -1, data |-> <<>>]

NoOperation == [op |-> "none", dst |-> "", lhs |-> "", rhs |-> "", threw |-> FALSE]

MatrixAtRest ==
    /\ mObj = <<>>
    /\ mPrev = <<>>
    /\ mLast = NoOperation
    /\ mOps = 0

ComponentAtRest ==
    /\ cCfg = <<>>
    /\ cCall = <<>>
    /\ cPc = "none"
    /\ cLocal = <<>>
    /\ cBad = {}
    /\ cEnd = "none"

RegionAtRest ==
    /\ wRegion = <<>>
    /\ wPhase = "outside"
    /\ wPending = {}
    /\ wReads = <<>>
    /\ wWrites = <<>>

SoftmaxAtRest ==
    /\ sIn = <<>>
    /\ sPar = FALSE
    /\ sPhase = "none"
    /\ sPending = {}
    /\ sMax = <<>>
    /\ sArg = <<>>
    /\ sDen = <<>>
    /\ sLog = <<>>

PathAtRest ==
    /\ pCfg = <<>>
    /\ pCalls = 0
    /\ pPc = 0
    /\ pPhase = "none"
    /\ pPending = {}
    /\ pMem = <<>>
    /\ pTable = <<>>
    /\ pOut = <<>>
    /\ pFirst = <<>>

InitEnc ==
    /\ config \in TransformerConfig
    /\ num_threads \in 1..MaxThreads
    /\ encoder = "none"
    /\ layers_ = 0
    /\ pc = "idle"
    /\ call = NoCall
    /\ calls = 0
    /\ layer_i = 0
    /\ current_output = NoMat
    /\ frame = NoFrame
    /\ pending = {}
    /\ regions = {}
    /\ layer_log = <<>>
    /\ result = NoResult
    /\ assigned = {}

\* TransformerEncoder encoder(config)
Construct ==
    /\ encoder = "none"
    /\ encoder' = IF EncoderConstructs(config) THEN "built" ELSE "config_error"
    /\ layers_' = IF EncoderConstructs(config) THEN config.num_layers ELSE 0
    /\ UNCHANGED <<notEncVars, assigned, config, num_threads, pc, call, calls, layer_i, current_output,
                   frame, pending, regions, layer_log, result>>

\* Utils::set_thread_count(n), between calls
SetThreadCount(n) ==
    /\ pc = "idle"
    /\ n # num_threads
    /\ calls < MaxCalls
    /\ num_threads' = n
    /\ UNCHANGED <<notEncVars, assigned, config, encoder, layers_, pc, call, calls, layer_i,
                   current_output, frame, pending, regions, layer_log, result>>

\* TransformerEncoder::forward_serial: the test of the input's dimensions
SerialInputMatches(cfg, shape) ==
    ~(shape[1] # cfg.seq_length \/ shape[2] # cfg.embed_dim)

ParallelInputMatches_And(cfg, shape) ==
    ~(shape[1] # cfg.seq_length /\ shape[2] # cfg.embed_dim)

\* TransformerEncoder::forward_parallel: the test of the input's dimensions
ParallelInputMatches(cfg, shape) ==
    ~(shape[1] # cfg.seq_length \/ shape[2] # cfg.embed_dim)

\* A throw of std::invalid_argument leaves forward.
Thrown == [kind |-> "invalid_argument", mat |-> NoMat]

\* TransformerEncoder::forward(input, use_parallel): entry, the dimension test
\* and Matrix current_output = input
Forward(shape, par) ==
    /\ encoder = "built"
    /\ pc = "idle"
    /\ calls < MaxCalls
    /\ calls' = calls + 1
    /\ call' = [shape |-> shape, par |-> par]
    /\ regions' = {}
    /\ layer_log' = <<>>
    /\ frame' = NoFrame
    /\ pending' = {}
    /\ layer_i' = 0
    /\ IF (IF par THEN ParallelInputMatches(config, shape)
                  ELSE SerialInputMatches(config, shape))
       THEN /\ current_output' = Mat(shape, InputTerm)
            /\ assigned' = assigned \cup {<<-1, "current_output">>}
            /\ result' = NoResult
            /\ pc' = "loop"
       ELSE /\ current_output' = NoMat
            /\ assigned' = assigned
            /\ result' = Thrown
            /\ pc' = "idle"
    /\ UNCHANGED <<notEncVars, config, num_threads, encoder, layers_>>

NextLayerInput_CallInput(input, current) == input

\* layers_[i]->forward_...(current_output): the argument of the layer's forward
NextLayerInput(input, current) == current

\* for (i = 0; i < layers_.size(); ++i): the loop test true, layer i's forward is entered
LayerForward ==
    /\ pc = "loop"
    /\ layer_i < layers_
    /\ frame' = [NoFrame EXCEPT
                   !.input = NextLayerInput(Mat(call.shape, InputTerm), current_output)]
    /\ layer_log' = Append(layer_log,
                      [layer |-> layer_i, input |-> frame'.input.val,
                       output |-> NoTerm, done |-> FALSE])
    /\ pc' = "attn_qkv"
    /\ UNCHANGED <<notEncVars, assigned, config, num_threads, encoder, layers_, call, calls, layer_i,
                   current_output, pending, regions, result>>

\* the loop test false: return current_output
ForwardReturn ==
    /\ pc = "loop"
    /\ layer_i >= layers_
    /\ result' = [kind |-> "matrix", mat |-> current_output]
    /\ pc' = "idle"
    /\ UNCHANGED <<notEncVars, assigned, config, num_threads, encoder, layers_, call, calls, layer_i,
                   current_output, frame, pending, regions, layer_log>>

\* The members of the components of a layer: the weight matrices.
WeightNames ==
    {"W_q_", "W_k_", "W_v_", "W_o_", "W1_", "b1_", "W2_", "b2_", "gamma_",
     "beta_"}

StatementAssigns_BiasInPlace(at, par) ==
    IF at = "ffn" THEN {"hidden", "b1_", "output"} ELSE {"result"}

\* The matrices a statement of the layer's forward assigns to or writes cells
\* of, by the position of the statement and the path: locals of the forward
\* functions and of the functions they call.
StatementAssigns(at, par) ==
    CASE at = "attn_qkv" -> {"Q", "K", "V"}
      [] at = "attn_sections" -> {"Q", "K", "V"}
      [] at = "attn_split" -> {"Q_heads", "K_heads", "V_heads"}
      [] at \in {"attn_heads", "attn_head_tasks"} ->
            {"attention_outputs", "K_T", "scores", "attention_weights"}
      [] at = "attn_concat" -> {"concat_output"}
      [] at = "attn_out" -> {"attention_output"}
      [] at = "residual1" -> {"residual1"}
      [] at = "norm1" -> {"norm1_output"}
      [] at = "ffn" -> {"hidden", "activated", "output", "ffn_output"}
      [] at = "residual2" -> {"residual2"}
      [] at = "norm2" -> {"norm2_output"}
      [] OTHER -> {}

\* One statement of a layer's forward: the locals and the region log change,
\* control moves on, or the statement throws.
Statement(ok, nextPc, newFrame, newRegions) ==
    /\ regions' = regions \cup newRegions
    /\ assigned' = assigned \cup ({layer_i} \X StatementAssigns(pc, call.par))
    /\ IF ok
       THEN /\ frame' = newFrame
            /\ pc' = nextPc
            /\ result' = result
       ELSE /\ frame' = NoFrame
            /\ pc' = "idle"
            /\ result' = Thrown
    /\ UNCHANGED <<notEncVars, config, num_threads, encoder, layers_, call, calls, layer_i,
                   current_output, layer_log>>


Min(S) == CHOOSE x \in S : \A y \in S : x <= y

MayRun_OwnThread(t) == t \in pending /\ t <= num_threads

\* The order in which a team runs the tasks of a region: any order with
\* several threads, program order with one.
MayRun(t) == t \in pending /\ (num_threads = 1 => t = Min(pending))

\* The three sections of forward_parallel, in program order
SectionName == <<"Q", "K", "V">>

ProjectionKernel_Naive(par) == "operator*"

\* The member function a projection is computed by: input * W_q_ on the
\* serial path, input.multiply_blocked(W_q_) on the parallel path
ProjectionKernel(par) == IF par THEN "multiply_blocked" ELSE "operator*"

Joined_Early(tasks) == TRUE

\* The implicit barrier at the end of a worksharing region: the encountering
\* thread goes on when every task of the region has been run
Joined(tasks) == tasks = {}

\* MultiHeadAttention::forward_serial: Q = input * W_q_; K = input * W_k_; V = input * W_v_
AttnProjectSerial ==
    /\ pc = "attn_qkv"
    /\ ~call.par
    /\ LET x == frame.input.shape
           W == AttnWeightShape(config)
           q == MulShape(x, W)
       IN Statement(q # BadShape, "attn_split",
                    [frame EXCEPT !.Q = q, !.K = q, !.V = q,
                       !.kernel = [n \in DOMAIN @ |-> ProjectionKernel(call.par)]],
                    MulRegions(x, W, TopCtx))
    /\ UNCHANGED pending

\* MultiHeadAttention::forward_parallel: Q, K, V are allocated and
\* #pragma omp parallel sections opens the region of the three projections
AttnSectionsFork ==
    /\ pc = "attn_qkv"
    /\ call.par
    /\ LET x == frame.input.shape
           W == AttnWeightShape(config)
           q == <<x[1], W[2]>>
       IN Statement(TRUE, "attn_sections",
                    [frame EXCEPT !.Q = q, !.K = q, !.V = q],
                    {Region("sections", TopCtx, 3)})
    /\ pending' = 1..3

\* #pragma omp section: Q (K, V) = input.multiply_blocked(W_q_ (W_k_, W_v_))
SectionRun(t) ==
    /\ pc = "attn_sections"
    /\ MayRun(t)
    /\ LET x == frame.input.shape
           W == AttnWeightShape(config)
       IN Statement(TRUE, "attn_sections",
                    [frame EXCEPT ![SectionName[t]] = MulShape(x, W),
                       !.kernel[SectionName[t]] = ProjectionKernel(call.par)],
                    BlockedRegions(x, W, TeamCtx("sections", num_threads)))
    /\ pending' = pending \ {t}

\* the implicit barrier that ends the sections region
SectionsJoin ==
    /\ pc = "attn_sections"
    /\ Joined(pending)
    /\ Statement(frame.Q # BadShape /\ frame.K # BadShape /\ frame.V # BadShape,
                 "attn_split", frame, {})
    /\ UNCHANGED pending

\* Q_heads, K_heads, V_heads (num_heads matrices of (seq_length, head_dim_));
\* split_heads(Q, Q_heads); split_heads(K, K_heads); split_heads(V, V_heads)
AttnSplit ==
    /\ pc = "attn_split"
    /\ Statement(TRUE, "attn_heads",
                 [frame EXCEPT !.heads = <<config.seq_length, HeadDim(config)>>],
                 HeadCopyRegions("split_heads", config, TopCtx))
    /\ UNCHANGED pending

\* std::vector<Matrix> attention_outputs(num_heads, Matrix(seq_length, head_dim_))
FreshOutputs(cfg) ==
    [h \in 1..cfg.num_heads |-> <<cfg.seq_length, HeadDim(cfg)>>]

\* forward_serial: for each head h, attention_outputs[h] =
\* scaled_dot_product_attention(Q_heads[h], K_heads[h], V_heads[h], false)
AttnHeadsSerial ==
    /\ pc = "attn_heads"
    /\ ~call.par
    /\ LET hs == frame.heads
           out == SdpaShape(hs, hs, hs)
       IN Statement(out # BadShape, "attn_concat",
                    [frame EXCEPT !.outs = [h \in 1..config.num_heads |-> out]],
                    IF config.num_heads > 0
                    THEN SdpaRegions(hs, hs, hs, FALSE, TopCtx) ELSE {})
    /\ UNCHANGED pending

\* forward_parallel: #pragma omp parallel for if (config_.num_heads > 1) over the heads
AttnHeadsFork ==
    /\ pc = "attn_heads"
    /\ call.par
    /\ Statement(TRUE, "attn_head_tasks",
                 [frame EXCEPT !.outs = FreshOutputs(config)],
                 IF config.num_heads > 1
                 THEN {Region("head_loop", TopCtx, config.num_heads)} ELSE {})
    /\ pending' = 1..config.num_heads

\* The context of an iteration of the per-head loop: a team's thread when the
\* if clause engaged the region, the caller's thread otherwise.
HeadCtx(cfg, threads) ==
    IF cfg.num_heads > 1 THEN TeamCtx("heads", threads) ELSE TopCtx

\* one iteration: attention_outputs[h] =
\* scaled_dot_product_attention(Q_heads[h], K_heads[h], V_heads[h], true)
HeadRun(h) ==
    /\ pc = "attn_head_tasks"
    /\ MayRun(h)
    /\ LET hs == frame.heads
       IN Statement(TRUE, "attn_head_tasks",
                    [frame EXCEPT !.outs[h] = SdpaShape(hs, hs, hs)],
                    SdpaRegions(hs, hs, hs, TRUE, HeadCtx(config, num_threads)))
    /\ pending' = pending \ {h}

\* the implicit barrier that ends the per-head loop
HeadsJoin ==
    /\ pc = "attn_head_tasks"
    /\ Joined(pending)
    /\ Statement(\A h \in DOMAIN frame.outs : frame.outs[h] # BadShape,
                 "attn_concat", frame, {})
    /\ UNCHANGED pending

\* MultiHeadAttention::concat_heads: Matrix result(seq_length, embed_dim)
ConcatShape(cfg) == <<cfg.seq_length, cfg.embed_dim>>

\* Matrix concat_output = concat_heads(attention_outputs)
AttnConcat ==
    /\ pc = "attn_concat"
    /\ Statement(TRUE, "attn_out",
                 [frame EXCEPT !.concat = ConcatShape(config)],
                 HeadCopyRegions("concat_heads", config, TopCtx))
    /\ UNCHANGED pending

\* return concat_output * W_o_ (serial), concat_output.multiply_blocked(W_o_) (parallel)
AttnOut ==
    /\ pc = "attn_out"
    /\ LET x == frame.concat
           W == AttnWeightShape(config)
           out == MulShape(x, W)
       IN Statement(out # BadShape, "residual1",
                    [frame EXCEPT !.attention_output =
                        Mat(out, Term("attention", layer_i, <<frame.input.val>>))],
                    IF call.par THEN BlockedRegions(x, W, TopCtx)
                                ELSE MulRegions(x, W, TopCtx))
    /\ UNCHANGED pending

\* Matrix residual1 = input + attention_output
Residual1 ==
    /\ pc = "residual1"
    /\ LET a == frame.input
           b == frame.attention_output
           sh == AddShape(a.shape, b.shape)
       IN Statement(sh # BadShape, "norm1",
                    [frame EXCEPT !.residual1 =
                        Mat(sh, Term("add", 0, <<a.val, b.val>>))],
                    AddRegions(a.shape, b.shape, TopCtx))
    /\ UNCHANGED pending

\* LayerNorm::forward_serial / forward_parallel: Matrix result(input.rows(), input.cols());
\* the parallel path runs the rows under #pragma omp parallel for
LayerNormRegions(x, par) ==
    IF par THEN {Region("layer_norm", TopCtx, x[1])} ELSE {}

\* Matrix norm1_output = norm1_->forward_...(residual1)
Norm1 ==
    /\ pc = "norm1"
    /\ LET x == frame.residual1
       IN Statement(TRUE, "ffn",
                    [frame EXCEPT !.norm1_output =
                        Mat(x.shape, Term("norm1", layer_i, <<x.val>>))],
                    LayerNormRegions(x.shape, call.par))
    /\ UNCHANGED pending

\* FeedForwardNetwork::forward_serial / forward_parallel:
\* hidden = input * W1_; hidden += b1_; activated = relu(hidden);
\* output = activated * W2_; output += b2_
FfnShape(cfg, x) == MulShape(MulShape(x, W1Shape(cfg)), W2Shape(cfg))

FfnRegions(cfg, x, par) ==
    LET hidden == MulShape(x, W1Shape(cfg))
        out == MulShape(hidden, W2Shape(cfg))
    IN MulRegions(x, W1Shape(cfg), TopCtx)
       \cup MulRegions(hidden, W2Shape(cfg), TopCtx)
       \cup (IF par /\ hidden # BadShape
             THEN {Region("ffn_bias", TopCtx, hidden[1] * hidden[2]),
                   Region("relu", TopCtx, hidden[1] * hidden[2])}
             ELSE {})
       \cup (IF par /\ out # BadShape
             THEN {Region("ffn_bias", TopCtx, out[1] * out[2])}
             ELSE {})

\* Matrix ffn_output = ffn_->forward_...(norm1_output)
Ffn ==
    /\ pc = "ffn"
    /\ LET x == frame.norm1_output
           out == FfnShape(config, x.shape)
       IN Statement(out # BadShape, "residual2",
                    [frame EXCEPT !.ffn_output =
                        Mat(out, Term("ffn", layer_i, <<x.val>>))],
                    FfnRegions(config, x.shape, call.par))
    /\ UNCHANGED pending

Residual2Left_Input(f) == f.input

\* the left operand of the second residual: norm1_output
Residual2Left(f) == f.norm1_output

\* Matrix residual2 = norm1_output + ffn_output
Residual2 ==
    /\ pc = "residual2"
    /\ LET a == Residual2Left(frame)
           b == frame.ffn_output
           sh == AddShape(a.shape, b.shape)
       IN Statement(sh # BadShape, "norm2",
                    [frame EXCEPT !.residual2 =
                        Mat(sh, Term("add", 0, <<a.val, b.val>>))],
                    AddRegions(a.shape, b.shape, TopCtx))
    /\ UNCHANGED pending

\* Matrix norm2_output = norm2_->forward_...(residual2); return norm2_output;
\* back in the encoder: current_output = <the layer's result>; ++i
Norm2 ==
    /\ pc = "norm2"
    /\ LET x == frame.residual2
           out == Mat(x.shape, Term("norm2", layer_i, <<x.val>>))
       IN /\ current_output' = out
          /\ layer_log' = [layer_log EXCEPT ![Len(layer_log)] =
                             [@ EXCEPT !.output = out.val, !.done = TRUE]]
          /\ regions' = regions \cup LayerNormRegions(x.shape, call.par)
    /\ assigned' = assigned \cup ({layer_i} \X StatementAssigns(pc, call.par))
                             \cup {<<-1, "current_output">>}
    /\ layer_i' = layer_i + 1
    /\ frame' = NoFrame
    /\ pc' = "loop"
    /\ UNCHANGED <<notEncVars, config, num_threads, encoder, layers_, call, calls, pending,
                   result>>

\* Shapes handed to forward: every (rows, cols) some configuration accepts.
InputShapes == SeqLengths \X EmbedDims

NextEnc ==
    \/ Construct
    \/ \E n \in 1..MaxThreads : SetThreadCount(n)
    \/ \E shape \in InputShapes, par \in BOOLEAN : Forward(shape, par)
    \/ LayerForward
    \/ ForwardReturn
    \/ AttnProjectSerial
    \/ AttnSectionsFork
    \/ \E t \in 1..3 : SectionRun(t)
    \/ SectionsJoin
    \/ AttnSplit
    \/ AttnHeadsSerial
    \/ AttnHeadsFork
    \/ \E h \in 1..config.num_heads : HeadRun(h)
    \/ HeadsJoin
    \/ AttnConcat
    \/ AttnOut
    \/ Residual1
    \/ Norm1
    \/ Ffn
    \/ Residual2
    \/ Norm2

\* everything outside the encoder, at rest
OthersAtRest ==
    /\ VerifyAtRest /\ KernelAtRest /\ HeadsAtRest /\ BlockedAtRest
    /\ RandAtRest
    /\ MatrixAtRest
    /\ ComponentAtRest
    /\ RegionAtRest
    /\ SoftmaxAtRest
    /\ PathAtRest

Init == InitEnc /\ OthersAtRest

Next == NextEnc

Spec == Init /\ [][Next]_vars


(***************************************************************************)
(* SpecVerify: PerformanceBenchmark::verify_numerical_correctness.         *)
(*                                                                         *)
(* A float is a finite number, +Inf, -Inf or NaN.  The finite values are   *)
(* small integers, on which single-precision subtraction is exact.         *)
(***************************************************************************)
MaxVal == 2         \* finite cell values and tolerances range over 0..MaxVal

Fin(v) == [k |-> "fin", v |-> v]
PosInf == [k |-> "inf", v |-> 0]
NegInf == [k |-> "ninf", v |-> 0]
NaN == [k |-> "nan", v |-> 0]

Floats == {Fin(v) : v \in 0..MaxVal} \cup {PosInf, NegInf, NaN}

IsFinite(a) == a.k = "fin"

\* float - float (IEEE 754)
FSub(a, b) ==
    CASE a.k = "nan" \/ b.k = "nan" -> NaN
      [] a.k = "inf" -> IF b.k = "inf" THEN NaN ELSE PosInf
      [] a.k = "ninf" -> IF b.k = "ninf" THEN NaN ELSE NegInf
      [] b.k = "inf" -> NegInf
      [] b.k = "ninf" -> PosInf
      [] OTHER -> Fin(a.v - b.v)

\* std::abs(float)
FAbs(a) ==
    CASE a.k = "nan" -> NaN
      [] a.k \in {"inf", "ninf"} -> PosInf
      [] OTHER -> Fin(IF a.v < 0 THEN -a.v ELSE a.v)

\* float > float: false whenever an operand is NaN
FGt(a, b) ==
    /\ a.k # "nan"
    /\ b.k # "nan"
    /\ CASE a.k = "inf" -> b.k # "inf"
         [] a.k = "ninf" -> FALSE
         [] OTHER -> b.k = "ninf" \/ (b.k = "fin" /\ a.v > b.v)

\* float <= float: false whenever an operand is NaN
FLe(a, b) == a.k # "nan" /\ b.k # "nan" /\ ~FGt(a, b)

\* A Matrix of floats: rows_, cols_ and the row-major data_
VMatrix(r, c, d) == [rows |-> r, cols |-> c, data |-> d]

\* Matrix::operator()(row, col) const, rows and columns counted from 0
At(m, i, j) == m.data[i * m.cols + j + 1]

\* float diff = std::abs(serial_result(i, j) - parallel_result(i, j));
\* if (diff > tolerance) return false;
CellFails(a, b, tol) == FGt(FAbs(FSub(a, b)), tol)

\* the two loops from cell n on (n counts the cells row-major from 0):
\* false at the first failing cell, true when the loops run out
RECURSIVE VerifyFrom(_, _, _, _)
VerifyFrom(A, B, tol, n) ==
    IF n >= A.rows * A.cols THEN TRUE
    ELSE IF CellFails(At(A, n \div A.cols, n % A.cols),
                      At(B, n \div A.cols, n % A.cols), tol)
         THEN FALSE
         ELSE VerifyFrom(A, B, tol, n + 1)

\* PerformanceBenchmark::verify_numerical_correctness(serial_result, parallel_result, tolerance)
verify_numerical_correctness(A, B, tol) ==
    IF A.rows # B.rows \/ A.cols # B.cols THEN FALSE
    ELSE VerifyFrom(A, B, tol, 0)

\* Shapes of the matrices handed to the check.
VShapes == {<<1, 1>>, <<1, 2>>, <<2, 1>>}

VMatrices ==
    UNION {{VMatrix(sh[1], sh[2], d) : d \in [1..(sh[1] * sh[2]) -> Floats]} :
           sh \in VShapes}

EncAtRest ==
    /\ config = [seq_length |-> 1, embed_dim |-> 2, num_heads |-> 1,
                 ff_dim |-> 1, num_layers |-> 0]
    /\ encoder = "none"
    /\ layers_ = 0
    /\ pc = "idle"
    /\ call = NoCall
    /\ calls = 0
    /\ layer_i = 0
    /\ current_output = NoMat
    /\ frame = NoFrame
    /\ pending = {}
    /\ regions = {}
    /\ layer_log = <<>>
    /\ result = NoResult
    /\ assigned = {}

InitVerify ==
    /\ vA \in VMatrices
    /\ vB \in VMatrices
    /\ vTol \in {Fin(v) : v \in 0..MaxVal}
    /\ vDone = FALSE
    /\ vRet = FALSE
    /\ num_threads = 1
    /\ EncAtRest
    /\ KernelAtRest
    /\ HeadsAtRest
    /\ BlockedAtRest
    /\ RandAtRest
    /\ MatrixAtRest
    /\ ComponentAtRest
    /\ RegionAtRest
    /\ SoftmaxAtRest
    /\ PathAtRest

\* bool correct = verify_numerical_correctness(serial_output, parallel_output, tolerance)
VerifyCall ==
    /\ ~vDone
    /\ vDone' = TRUE
    /\ vRet' = verify_numerical_correctness(vA, vB, vTol)
    /\ UNCHANGED <<notVerifyVars, vA, vB, vTol>>

NextVerify == VerifyCall

SpecVerify == InitVerify /\ [][NextVerify]_vars

\* The check has been made.
Verified == vDone

\* max over the cells of |A(i,j) - B(i,j)| <= tolerance, in IEEE comparisons:
\* every cell's difference compares <= tolerance
MaxDiffWithin(A, B, tol) ==
    \A n \in 1..(A.rows * A.cols) : FLe(FAbs(FSub(A.data[n], B.data[n])), tol)

SameShape(A, B) == A.rows = B.rows /\ A.cols = B.cols

\* C6: the check returns true if and only if the shapes match and the largest
\* |A(i,j) - B(i,j)| is <= tolerance; false when the shapes differ, true when
\* the largest difference equals the tolerance.
C6_TrueIffWithinTolerance ==
    Verified =>
        (vRet <=> (SameShape(vA, vB) /\ MaxDiffWithin(vA, vB, vTol)))

\* C7: a result with a non-finite cell (NaN or Inf) fails the check against the
\* other result, for every tolerance.
C7_NonFiniteFails ==
    (Verified /\ SameShape(vA, vB)
       /\ \E n \in 1..(vA.rows * vA.cols) :
             ~IsFinite(vA.data[n]) \/ ~IsFinite(vB.data[n]))
    => vRet = FALSE

(***************************************************************************)
(* SpecKernel: Matrix::operator* cell by cell.                             *)
(*                                                                         *)
(* Cells hold integers, kept as a float keeps them: every sum and product  *)
(* is rounded to 24 significant bits, to nearest, ties to even.  Below     *)
(* 2^24 the arithmetic is exact; above it addition is not associative.     *)
(***************************************************************************)
MaxKCalls == 2      \* multiplications of the same operands

MantissaBits == 24  \* the significand of float

Pow2(n) == 2 ^ n

\* the bits of a >= 0 beyond the significand
RECURSIVE ExcessBits(_)
ExcessBits(a) ==
    IF a < Pow2(MantissaBits) THEN 0 ELSE 1 + ExcessBits(a \div 2)

\* the float nearest to the integer x
RoundF(x) ==
    LET a == IF x < 0 THEN -x ELSE x
        p == Pow2(ExcessBits(a))
        q == a \div p
        rem == a % p
        up == 2 * rem > p \/ (2 * rem = p /\ q % 2 = 1)
        m == IF up THEN q + 1 ELSE q
    IN (IF x < 0 THEN -1 ELSE 1) * m * p

\* float + float and float * float
F32Add(a, b) == RoundF(a + b)
F32Mul(a, b) == RoundF(a * b)

\* (*this)(i, k): row i holds 2^24 in column big[i] and 1 elsewhere
ThisAt(big, i, k) == IF big[i + 1] = k THEN Pow2(MantissaBits) ELSE 1

\* other(k, j): column j holds b[j] in every row
OtherAt(b, k, j) == b[j + 1]

\* float sum = 0.0f; for (k ...) sum += (*this)(i, k) * other(k, j): the loop
\* from column k up to and including column last, started with sum.  The
\* columns are taken in ascending order, the lower half of the range first
\* and the upper half next, from the sum the lower half has left.
RECURSIVE SumFrom(_, _, _, _, _, _, _)
SumFrom(sum, big, b, i, j, k, last) ==
    IF k > last THEN sum
    ELSE IF k = last
    THEN F32Add(sum, F32Mul(ThisAt(big, i, k), OtherAt(b, k, j)))
    ELSE LET mid == (k + last) \div 2
             half == SumFrom(sum, big, b, i, j, k, mid)
         IN IF half = half   \* the lower half is summed first
            THEN SumFrom(half, big, b, i, j, mid + 1, last)
            ELSE half

\* #pragma omp parallel for collapse(2) over i and j: one iteration <<i, j,
\* first k, last k>> per cell, its whole k loop inside the iteration
MulIterations(shape) ==
    {<<i, j, 0, shape[2] - 1>> : i \in 0..(shape[1] - 1),
                                 j \in 0..(shape[3] - 1)}

IterationBody_CarriedSum(out, big, b, it) ==
    [out EXCEPT ![<<it[1], it[2]>>] =
        SumFrom(out[<<0, 0>>], big, b, it[1], it[2], it[3], it[4])]

\* the body of an iteration: float sum = 0.0f, the loop over its k, and
\* result(i, j) = sum
IterationBody(out, big, b, it) ==
    [out EXCEPT ![<<it[1], it[2]>>] =
        SumFrom(0, big, b, it[1], it[2], it[3], it[4])]

\* the place of an iteration in program order
ProgramOrder(shape, it) == (it[1] * shape[3] + it[2]) * shape[2] + it[3]

\* the if clause of operator*'s parallel for
MulEngaged(shape) ==
    MulRegions(<<shape[1], shape[2]>>, <<shape[2], shape[3]>>, TopCtx) # {}

\* Matrix result(rows_, other.cols_): zero-filled
ZeroResult(shape) ==
    [cell \in (0..(shape[1] - 1)) \X (0..(shape[3] - 1)) |-> 0]

\* <<rows_, cols_, other.cols_>>: tiny operands, and work estimates of 1000
\* (the loop stays serial) and 1004 (the loop is parallel)
KernelShapes == {<<1, 2, 1>>, <<2, 2, 2>>, <<2, 250, 2>>, <<2, 251, 2>>}

InitKernel ==
    /\ kShape \in KernelShapes
    /\ kBig \in [1..kShape[1] -> {-1, 0, kShape[2] - 1}]
    /\ kB \in [1..kShape[3] -> {1, 2}]
    /\ kPhase = "idle"
    /\ kPending = {}
    /\ kOut = <<>>
    /\ kCalls = 0
    /\ kFirst = <<>>
    /\ num_threads \in 1..MaxThreads
    /\ EncAtRest
    /\ VerifyAtRest
    /\ HeadsAtRest
    /\ BlockedAtRest
    /\ RandAtRest
    /\ MatrixAtRest
    /\ ComponentAtRest
    /\ RegionAtRest
    /\ SoftmaxAtRest
    /\ PathAtRest

\* Utils::set_thread_count(n), between multiplications
KSetThreadCount(n) ==
    /\ kPhase = "idle"
    /\ n # num_threads
    /\ kCalls < MaxKCalls
    /\ num_threads' = n
    /\ UNCHANGED <<notKernelVars, kernelVars>>

\* Matrix::operator*: the shapes agree, result is allocated, the loop starts
KMultiply ==
    /\ kPhase = "idle"
    /\ kCalls < MaxKCalls
    /\ kCalls' = kCalls + 1
    /\ kOut' = ZeroResult(kShape)
    /\ kPending' = MulIterations(kShape)
    /\ kPhase' = "running"
    /\ UNCHANGED <<notKernelVars, num_threads, kShape, kBig, kB, kFirst>>

\* Iterations run in program order when the if clause is false or the team
\* has one thread, in any order otherwise.
KMayRun(it) ==
    /\ it \in kPending
    /\ (~MulEngaged(kShape) \/ num_threads = 1) =>
          \A other \in kPending :
              ProgramOrder(kShape, it) <= ProgramOrder(kShape, other)

\* a thread of the team runs one iteration
KRunIteration ==
    /\ kPhase = "running"
    /\ \E it \in kPending :
          /\ KMayRun(it)
          /\ kOut' = IterationBody(kOut, kBig, kB, it)
          /\ kPending' = kPending \ {it}
    /\ UNCHANGED <<notKernelVars, num_threads, kShape, kBig, kB, kPhase, kCalls,
                   kFirst>>

\* the loop is over: return result
KReturn ==
    /\ kPhase = "running"
    /\ kPending = {}
    /\ kPhase' = "idle"
    /\ kFirst' = IF kCalls = 1 THEN kOut ELSE kFirst
    /\ UNCHANGED <<notKernelVars, num_threads, kShape, kBig, kB, kPending, kOut,
                   kCalls>>

NextKernel ==
    \/ \E n \in 1..MaxThreads : KSetThreadCount(n)
    \/ KMultiply
    \/ KRunIteration
    \/ KReturn

SpecKernel == InitKernel /\ [][NextKernel]_vars

\* For fixed operands the product is the same bit for bit on every call,
\* whatever the thread count and the order in which the threads run the
\* iterations: every later call returns what the first did.
KernelProductRepeats ==
    (kPhase = "idle" /\ kCalls >= 2) => kOut = kFirst

(***************************************************************************)
(* SpecHeads: MultiHeadAttention::split_heads and concat_heads, cell by     *)
(* cell, on matrices kept as rows_, cols_ and the row-major data_.         *)
(***************************************************************************)
\* Values of the cells of the matrix handed to split_heads (a fresh Matrix
\* holds 0.0f in every cell).
CellValues == {1, 2}

\* Matrix::operator()(row, col) = v
SetAt(m, i, j, v) == [m EXCEPT !.data[i * m.cols + j + 1] = v]

\* Matrix::Matrix(rows, cols): data_(rows * cols, 0.0f)
ZeroMatrix(r, c) == VMatrix(r, c, [n \in 1..(r * c) |-> 0])

\* the columns j = 0 .. head_dim_ - 1 of iteration (h, i) of split_heads, from
\* column j on: heads[h](i, j) = input(i, h * head_dim_ + j)
RECURSIVE SplitRow(_, _, _, _, _, _)
SplitRow(heads, input, cfg, h, i, j) ==
    IF j >= HeadDim(cfg) THEN heads
    ELSE SplitRow([heads EXCEPT ![h + 1] =
                      SetAt(@, i, j, At(input, i, h * HeadDim(cfg) + j))],
                  input, cfg, h, i, j + 1)

RECURSIVE ConcatRow_NoOffset(_, _, _, _, _, _)
ConcatRow_NoOffset(res, heads, cfg, h, i, j) ==
    IF j >= HeadDim(cfg) THEN res
    ELSE ConcatRow_NoOffset(SetAt(res, i, j, At(heads[h + 1], i, j)),
                            heads, cfg, h, i, j + 1)

\* the columns of iteration (h, i) of concat_heads, from column j on:
\* result(i, h * head_dim_ + j) = heads[h](i, j)
RECURSIVE ConcatRow(_, _, _, _, _, _)
ConcatRow(res, heads, cfg, h, i, j) ==
    IF j >= HeadDim(cfg) THEN res
    ELSE ConcatRow(SetAt(res, i, h * HeadDim(cfg) + j, At(heads[h + 1], i, j)),
                   heads, cfg, h, i, j + 1)

\* collapse(2) over h and i: one iteration <<h, i>> per head and position
HeadIterations(cfg) ==
    (0..(cfg.num_heads - 1)) \X (0..(cfg.seq_length - 1))

\* program order of the loop nest: h outer, i inner
HeadOrder(cfg, it) == it[1] * cfg.seq_length + it[2]

\* #pragma omp parallel for collapse(2) if (!omp_in_parallel()): the
\* iterations run in any order in a team of several threads, in program
\* order in the calling thread otherwise.
HMayRun(it) ==
    /\ it \in hPending
    /\ (hInPar \/ num_threads = 1) =>
          \A other \in hPending :
              HeadOrder(hCfg, it) <= HeadOrder(hCfg, other)

\* Configurations of a constructed MultiHeadAttention (embed_dim a multiple of
\* num_heads) with small matrices.
HeadConfigs ==
    {c \in [seq_length : {1, 2}, embed_dim : {1, 2, 4}, num_heads : {1, 2}] :
        AttentionConstructs(c)}

InitHeads ==
    /\ hCfg \in HeadConfigs
    /\ hInPar \in BOOLEAN
    /\ hM \in {VMatrix(hCfg.seq_length, hCfg.embed_dim, d) :
                 d \in [1..(hCfg.seq_length * hCfg.embed_dim) -> CellValues]}
    /\ hHeads = <<>>
    /\ hOut = <<>>
    /\ hPhase = "start"
    /\ hPending = {}
    /\ num_threads \in 1..MaxThreads
    /\ EncAtRest
    /\ VerifyAtRest
    /\ KernelAtRest
    /\ BlockedAtRest
    /\ RandAtRest
    /\ MatrixAtRest
    /\ ComponentAtRest
    /\ RegionAtRest
    /\ SoftmaxAtRest
    /\ PathAtRest

\* std::vector<Matrix> heads(num_heads, Matrix(seq_length, head_dim_));
\* split_heads(M, heads): the loop starts
SplitStart ==
    /\ hPhase = "start"
    /\ hHeads' = [h \in 1..hCfg.num_heads |->
                     ZeroMatrix(hCfg.seq_length, HeadDim(hCfg))]
    /\ hPending' = HeadIterations(hCfg)
    /\ hPhase' = "split"
    /\ UNCHANGED <<notHeadVars, hCfg, hInPar, hM, hOut>>

\* one iteration (h, i) of split_heads
SplitIteration ==
    /\ hPhase = "split"
    /\ \E it \in hPending :
          /\ HMayRun(it)
          /\ hHeads' = SplitRow(hHeads, hM, hCfg, it[1], it[2], 0)
          /\ hPending' = hPending \ {it}
    /\ UNCHANGED <<notHeadVars, hCfg, hInPar, hM, hOut, hPhase>>

\* split_heads returns
SplitReturn ==
    /\ hPhase = "split"
    /\ hPending = {}
    /\ hPhase' = "between"
    /\ UNCHANGED <<notHeadVars, hCfg, hInPar, hM, hHeads, hOut, hPending>>

\* concat_heads(heads): Matrix result(seq_length, embed_dim), the loop starts
ConcatStart ==
    /\ hPhase = "between"
    /\ hOut' = ZeroMatrix(hCfg.seq_length, hCfg.embed_dim)
    /\ hPending' = HeadIterations(hCfg)
    /\ hPhase' = "concat"
    /\ UNCHANGED <<notHeadVars, hCfg, hInPar, hM, hHeads>>

\* one iteration (h, i) of concat_heads
ConcatIteration ==
    /\ hPhase = "concat"
    /\ \E it \in hPending :
          /\ HMayRun(it)
          /\ hOut' = ConcatRow(hOut, hHeads, hCfg, it[1], it[2], 0)
          /\ hPending' = hPending \ {it}
    /\ UNCHANGED <<notHeadVars, hCfg, hInPar, hM, hHeads, hPhase>>

\* concat_heads returns result
ConcatReturn ==
    /\ hPhase = "concat"
    /\ hPending = {}
    /\ hPhase' = "done"
    /\ UNCHANGED <<notHeadVars, hCfg, hInPar, hM, hHeads, hOut, hPending>>

NextHeads ==
    \/ SplitStart
    \/ SplitIteration
    \/ SplitReturn
    \/ ConcatStart
    \/ ConcatIteration
    \/ ConcatReturn

SpecHeads == InitHeads /\ [][NextHeads]_vars

\* C11: for every M of shape (seq_length, embed_dim), embed_dim = num_heads *
\* head_dim, split_heads leaves in head h the columns h*head_dim ..
\* h*head_dim + head_dim - 1 of M, and concat_heads of the heads equals M in
\* every cell, inside or outside a parallel region and for every schedule.
C11_SplitConcatRoundTrip ==
    /\ hPhase \in {"between", "concat", "done"} =>
          \A h \in 0..(hCfg.num_heads - 1), i \in 0..(hCfg.seq_length - 1),
             j \in 0..(HeadDim(hCfg) - 1) :
                At(hHeads[h + 1], i, j) = At(hM, i, h * HeadDim(hCfg) + j)
    /\ hPhase = "done" => hOut = hM

\* C11 witness: the round trip of a 2 x 4 matrix with two different cells
\* through two heads has ended, the loops run by a team of several threads.
C11_Witness ==
    /\ hPhase = "done"
    /\ hCfg.num_heads = 2
    /\ hCfg.seq_length = 2
    /\ hCfg.embed_dim = 4
    /\ ~hInPar
    /\ num_threads > 1
    /\ At(hM, 0, 0) # At(hM, 0, 2)

(***************************************************************************)
(* SpecBlocked: Matrix::multiply_blocked cell by cell, with the operands   *)
(* and the float arithmetic of SpecKernel.                                 *)
(***************************************************************************)
\* std::min(x + BLOCK_SIZE, n)
BlockEnd(x, n) == IF x + BLOCK_SIZE < n THEN x + BLOCK_SIZE ELSE n

BlockCellStart_Zero(out, cell) == 0

\* float sum = result(i, j)
BlockCellStart(out, cell) == out[cell]

\* the bk loop of one (bi, bj) iteration, from block bk on: every cell (i, j)
\* of the tile takes sum = result(i, j), adds the products of the k-block in
\* ascending k and stores result(i, j) = sum
RECURSIVE BlocksFrom(_, _, _, _, _, _, _)
BlocksFrom(out, shape, big, b, bi, bj, bk) ==
    IF bk >= shape[2] THEN out
    ELSE LET tile == (bi..(BlockEnd(bi, shape[1]) - 1))
                        \X (bj..(BlockEnd(bj, shape[3]) - 1))
             next == [cell \in DOMAIN out |->
                        IF cell \in tile
                        THEN SumFrom(BlockCellStart(out, cell), big, b,
                                     cell[1], cell[2],
                                     bk, BlockEnd(bk, shape[2]) - 1)
                        ELSE out[cell]]
         IN IF next = next   \* block bk is done before block bk + BLOCK_SIZE
            THEN BlocksFrom(next, shape, big, b, bi, bj, bk + BLOCK_SIZE)
            ELSE next

\* collapse(2) over bi and bj: one iteration <<bi, bj>> per tile of result
BlockIterations(shape) ==
    {<<bi, bj>> \in (0..(shape[1] - 1)) \X (0..(shape[3] - 1)) :
        bi % BLOCK_SIZE = 0 /\ bj % BLOCK_SIZE = 0}

\* program order of the tiles: bi outer, bj inner
BlockOrder(shape, it) == it[1] * shape[3] + it[2]

\* The loop multiply_blocked runs: its own tiled loop when a dimension reaches
\* BLOCK_SIZE, the loop of operator* otherwise.
BlockedPending(shape) ==
    IF Tiled(<<shape[1], shape[2]>>, <<shape[2], shape[3]>>)
    THEN BlockIterations(shape)
    ELSE MulIterations(shape)

\* Iterations run in any order in a team of several threads: the tiled loop
\* when called outside a parallel region, the fallback's loop when its if
\* clause holds; in program order in the calling thread otherwise.
BlockedInOrder(shape, inPar, threads) ==
    \/ threads = 1
    \/ IF Tiled(<<shape[1], shape[2]>>, <<shape[2], shape[3]>>)
       THEN inPar
       ELSE ~MulEngaged(shape)

BMayRun(it) ==
    /\ it \in bPending
    /\ BlockedInOrder(bShape, bInPar, num_threads) =>
          \A other \in bPending :
              IF Len(it) = 2
              THEN BlockOrder(bShape, it) <= BlockOrder(bShape, other)
              ELSE ProgramOrder(bShape, it) <= ProgramOrder(bShape, other)

\* <<rows_, cols_, other.cols_>>: below BLOCK_SIZE (the fallback), several
\* k-blocks with a ragged last one, several row tiles, several column tiles
\* over two k-blocks; then each dimension alone at BLOCK_SIZE - 1 and at
\* BLOCK_SIZE, the two sides of the test
BlockedShapes ==
    {<<2, 3, 2>>, <<1, 2 * BLOCK_SIZE + 2, 1>>, <<BLOCK_SIZE + 1, 2, 1>>,
     <<2, BLOCK_SIZE + 1, BLOCK_SIZE + 1>>,
     <<BLOCK_SIZE - 1, 1, 1>>, <<1, BLOCK_SIZE - 1, 1>>, <<1, 1, BLOCK_SIZE - 1>>,
     <<BLOCK_SIZE, 1, 1>>, <<1, BLOCK_SIZE, 1>>, <<1, 1, BLOCK_SIZE>>}

\* Row r of *this (rows counted from 1) holds 2^24 in column p when r is odd;
\* the other rows hold 1 everywhere.
BigPattern(rows, p) == [r \in 1..rows |-> IF r % 2 = 1 THEN p ELSE -1]

\* Column c of other (columns counted from 1) holds q when c is odd, 1 when
\* c is even.
FillPattern(cols, q) == [c \in 1..cols |-> IF c % 2 = 1 THEN q ELSE 1]

InitBlocked ==
    /\ bShape \in BlockedShapes
    /\ bBig \in {BigPattern(bShape[1], p) :
                   p \in {-1, 0, bShape[2] - 1}
                         \cup ({BLOCK_SIZE - 1, BLOCK_SIZE} \cap 0..(bShape[2] - 1))}
    /\ bB \in {FillPattern(bShape[3], q) : q \in {1, 2}}
    /\ bInPar \in BOOLEAN
    /\ bPhase = "start"
    /\ bPending = {}
    /\ bOut = <<>>
    /\ num_threads \in 1..MaxThreads
    /\ EncAtRest
    /\ VerifyAtRest
    /\ KernelAtRest
    /\ HeadsAtRest
    /\ RandAtRest
    /\ MatrixAtRest
    /\ ComponentAtRest
    /\ RegionAtRest
    /\ SoftmaxAtRest
    /\ PathAtRest

\* Matrix::multiply_blocked: the shapes agree, result is allocated and
\* zero-filled, the loop starts
BMultiply ==
    /\ bPhase = "start"
    /\ bOut' = ZeroResult(bShape)
    /\ bPending' = BlockedPending(bShape)
    /\ bPhase' = "running"
    /\ UNCHANGED <<notBlockedVars, bShape, bBig, bB, bInPar>>

\* a thread runs one iteration: a tile of the blocked loop, or a cell of the
\* loop of operator*
BRunIteration ==
    /\ bPhase = "running"
    /\ \E it \in bPending :
          /\ BMayRun(it)
          /\ bOut' = IF Len(it) = 2
                     THEN BlocksFrom(bOut, bShape, bBig, bB, it[1], it[2], 0)
                     ELSE IterationBody(bOut, bBig, bB, it)
          /\ bPending' = bPending \ {it}
    /\ UNCHANGED <<notBlockedVars, bShape, bBig, bB, bInPar, bPhase>>

\* return result
BReturn ==
    /\ bPhase = "running"
    /\ bPending = {}
    /\ bPhase' = "done"
    /\ UNCHANGED <<notBlockedVars, bShape, bBig, bB, bInPar, bPending, bOut>>

NextBlocked ==
    \/ BMultiply
    \/ BRunIteration
    \/ BReturn

SpecBlocked == InitBlocked /\ [][NextBlocked]_vars

\* C12: for A, B with A.cols = B.rows the blocked multiply returns a matrix of
\* shape (A.rows, B.cols) whose every cell equals the naive triple loop's
\* float sum over k of A(i,k) * B(k,j), for every thread schedule.
C12_BlockedEqualsNaive ==
    bPhase = "done" =>
        /\ DOMAIN bOut = (0..(bShape[1] - 1)) \X (0..(bShape[3] - 1))
        /\ \A cell \in DOMAIN bOut :
              bOut[cell] = SumFrom(0, bBig, bB, cell[1], cell[2],
                                   0, bShape[2] - 1)

\* C12 witness: a product over three k-blocks, the last one ragged, has
\* returned with 2^24 met in the second block.
C12_Witness ==
    /\ bPhase = "done"
    /\ bShape = <<1, 2 * BLOCK_SIZE + 2, 1>>
    /\ bBig[1] = BLOCK_SIZE

\* rows, inner dimension and columns are all below the block size
BelowBlockSize(shape) == \A d \in 1..3 : shape[d] < BLOCK_SIZE

\* C23: with rows, inner dimension and columns all below 64 the blocked
\* multiply runs the loop of operator*, one iteration per cell over the
\* whole k range, and returns the naive product; with a dimension at 64 or
\* more it runs the tiled loop, one iteration per 64 x 64 tile of result.
C23_FallbackBelowBlockSize ==
    /\ (bPhase = "running" /\ BelowBlockSize(bShape)) =>
          bPending \subseteq
             {<<i, j, 0, bShape[2] - 1>> :
                 i \in 0..(bShape[1] - 1), j \in 0..(bShape[3] - 1)}
    /\ (bPhase = "running" /\ ~BelowBlockSize(bShape)) =>
          bPending \subseteq
             {<<bi * BLOCK_SIZE, bj * BLOCK_SIZE>> :
                 bi \in 0..((bShape[1] - 1) \div BLOCK_SIZE),
                 bj \in 0..((bShape[3] - 1) \div BLOCK_SIZE)}
    /\ (bPhase = "done" /\ BelowBlockSize(bShape)) =>
          bOut = [cell \in (0..(bShape[1] - 1)) \X (0..(bShape[3] - 1)) |->
                    SumFrom(0, bBig, bB, cell[1], cell[2], 0, bShape[2] - 1)]

\* C23 witness: a product with BLOCK_SIZE - 1 rows has returned from the
\* fallback.
C23_Witness ==
    /\ bPhase = "done"
    /\ bShape = <<BLOCK_SIZE - 1, 1, 1>>
    /\ bBig[1] = 0

(***************************************************************************)
(* SpecRandomize: Matrix::randomize.  The random-number objects are rd     *)
(* (std::random_device, declared before the parallel region) and one       *)
(* local_gen (std::mt19937) per thread of the team, declared inside it.    *)
(***************************************************************************)
MaxSize == 2        \* data_.size() ranges over 0..MaxSize

UIntBits == 32      \* unsigned int, the result of rd() and of rd() + int

\* An unsigned int is kept as <<high half, low half>>, each of UIntBits / 2
\* bits.
HalfRange == 2 ^ (UIntBits \div 2)

UInt(hi, lo) == <<hi, lo>>

\* unsigned int + int (the int not negative), wrapping at 2^UIntBits
UIntAdd(x, n) ==
    UInt((x[1] + (x[2] + n) \div HalfRange) % HalfRange,
         (x[2] + n) % HalfRange)

\* Outcomes of rd(): both ends of the range of unsigned int
Entropy ==
    {UInt(0, 0), UInt(0, 1), UInt(HalfRange - 1, HalfRange - 2),
     UInt(HalfRange - 1, HalfRange - 1)}

\* omp_get_thread_num() of the threads of the team
Team == 0..(num_threads - 1)

\* a use of a random-number object by a thread
Access(obj, owner, thread) == [obj |-> obj, owner |-> owner, by |-> thread]

\* rd() + omp_get_thread_num(), in unsigned int
SeedOf(e, tid) == UIntAdd(e, tid)

InitRandomize ==
    /\ num_threads \in 1..MaxThreads
    /\ rSize \in 0..MaxSize
    /\ rPhase = "start"
    /\ rPc = [t \in Team |-> "start"]
    /\ rSeed = [t \in Team |-> UInt(0, 0)]
    /\ rAccess = {}
    /\ rData = [i \in 1..rSize |-> -1]
    /\ EncAtRest
    /\ VerifyAtRest
    /\ KernelAtRest
    /\ HeadsAtRest
    /\ BlockedAtRest
    /\ MatrixAtRest
    /\ ComponentAtRest
    /\ RegionAtRest
    /\ SoftmaxAtRest
    /\ PathAtRest

\* std::random_device rd; std::mt19937 gen(rd()); #pragma omp parallel
RandomizeEnter ==
    /\ rPhase = "start"
    /\ rPhase' = "region"
    /\ rAccess' = rAccess \cup {Access("rd", "call", 0), Access("gen", "call", 0)}
    /\ UNCHANGED <<notRandVars, rSize, rPc, rSeed, rData>>

\* a thread t of the team: std::mt19937 local_gen(rd() + omp_get_thread_num()),
\* e the outcome of rd()
ThreadSeed ==
    /\ rPhase = "region"
    /\ \E t \in Team, e \in Entropy :
          /\ rPc[t] = "start"
          /\ rPc' = [rPc EXCEPT ![t] = "seeded"]
          /\ rSeed' = [rSeed EXCEPT ![t] = SeedOf(e, t)]
          /\ rAccess' = rAccess \cup {Access("rd", "call", t),
                                      Access("local_gen", t, t)}
    /\ UNCHANGED <<notRandVars, rSize, rPhase, rData>>

\* #pragma omp for: thread t runs iteration i, data_[i] = local_dis(local_gen)
ThreadFill ==
    /\ rPhase = "region"
    /\ \E t \in Team, i \in 1..rSize :
          /\ rPc[t] = "seeded"
          /\ rData[i] = -1
          /\ rData' = [rData EXCEPT ![i] = t]
          /\ rAccess' = rAccess \cup {Access("local_gen", t, t)}
    /\ UNCHANGED <<notRandVars, rSize, rPhase, rPc, rSeed>>

\* thread t has no iteration left in its share and reaches the barrier of
\* the omp for; the iterations not yet run are in the share of threads that
\* have not reached it
ThreadDone ==
    /\ rPhase = "region"
    /\ \E t \in Team :
          /\ rPc[t] = "seeded"
          /\ \/ \A i \in 1..rSize : rData[i] # -1
             \/ \E u \in Team \ {t} : rPc[u] # "done"
          /\ rPc' = [rPc EXCEPT ![t] = "done"]
    /\ UNCHANGED <<notRandVars, rSize, rPhase, rSeed, rAccess, rData>>

\* the end of the parallel region; randomize returns
RandomizeReturn ==
    /\ rPhase = "region"
    /\ \A t \in Team : rPc[t] = "done"
    /\ rPhase' = "done"
    /\ UNCHANGED <<notRandVars, rSize, rPc, rSeed, rAccess, rData>>

NextRandomize ==
    \/ RandomizeEnter
    \/ ThreadSeed
    \/ ThreadFill
    \/ ThreadDone
    \/ RandomizeReturn

SpecRandomize == InitRandomize /\ [][NextRandomize]_vars

\* C13: during randomize no random-number state is shared between workers:
\* every worker uses only a generator it owns, and no random source object is
\* accessed by two workers.
C13_NoSharedRandomState ==
    \A a1 \in rAccess, a2 \in rAccess :
        a1.obj = a2.obj /\ a1.owner = a2.owner => a1.by = a2.by

\* C14: the seeds of any two distinct workers' generators differ, for every
\* outcome of the entropy source.
C14_DistinctSeeds ==
    \A t1 \in DOMAIN rPc, t2 \in DOMAIN rPc :
        (t1 # t2 /\ rPc[t1] # "start" /\ rPc[t2] # "start")
            => rSeed[t1] # rSeed[t2]

(***************************************************************************)
(* SpecMatrix: variables of type Matrix and every public member of the     *)
(* class that makes or changes an object: the constructors, the            *)
(* destructor, the assignment operators, the element and buffer accessors, *)
(* the validated operations, transpose, randomize and zero.                *)
(***************************************************************************)
MaxOps == 3         \* operations made on the variables

\* the variables of type Matrix
Slots == {"a", "b", "c"}

\* rows and cols handed to the constructors
Dims == {1, 2}

\* a Matrix object lives in the variable
Alive(m) == m # NoObject

\* Matrix(rows, cols, value): data_(rows * cols, value)
FilledMatrix(r, c, value) == VMatrix(r, c, [n \in 1..(r * c) |-> value])

\* Matrix(const Matrix &other)
CopyOf(other) == VMatrix(other.rows, other.cols, other.data)

MovedFrom_KeepShape(other) == VMatrix(other.rows, other.cols, <<>>)

\* what a move leaves in other: data_ moved out, rows_ = 0, cols_ = 0
MovedFrom(other) == VMatrix(0, 0, <<>>)

\* operator* and multiply_blocked: if (cols_ != other.rows_) throw
MulMismatch(a, b) == a.cols # b.rows

AddMismatch_Size(a, b) == Len(a.data) # Len(b.data)

\* operator+: if (rows_ != other.rows_ || cols_ != other.cols_) throw
AddMismatch(a, b) == a.rows # b.rows \/ a.cols # b.cols

\* sum += (*this)(i, k) * other(k, j) from k on, on small integers, where
\* float arithmetic is exact
RECURSIVE DotFrom(_, _, _, _, _, _)
DotFrom(sum, a, b, i, j, k) ==
    IF k >= a.cols THEN sum
    ELSE DotFrom(sum + At(a, i, k) * At(b, k, j), a, b, i, j, k + 1)

\* operator*: Matrix result(rows_, other.cols_), result(i, j) = sum
Product(a, b) ==
    VMatrix(a.rows, b.cols,
            [n \in 1..(a.rows * b.cols) |->
                DotFrom(0, a, b, (n - 1) \div b.cols, (n - 1) % b.cols, 0)])

\* multiply_blocked: below BLOCK_SIZE in every dimension, (*this) * other
BlockedProduct(a, b) ==
    Product(a, b)

\* operator+: Matrix result(rows_, cols_),
\* result.data_[i] = data_[i] + other.data_[i] for i < data_.size()
Sum(a, b) ==
    VMatrix(a.rows, a.cols,
            [n \in 1..Len(a.data) |-> a.data[n] + b.data[n]])

\* transpose: Matrix result(cols_, rows_), result(j, i) = (*this)(i, j)
Transposed(a) ==
    VMatrix(a.cols, a.rows,
            [n \in 1..(a.cols * a.rows) |->
                At(a, (n - 1) % a.rows, (n - 1) \div a.rows)])

\* zero: data_[i] = 0.0f for i < data_.size()
Zeroed(a) == VMatrix(a.rows, a.cols, [n \in 1..Len(a.data) |-> 0])

\* row and col handed to operator(), offsets handed to the pointer of data()
Offsets == 0..2

\* values stored through operator() and data()
StoredValues == {5}

\* min and max handed to randomize
RandomRanges == {<<-1, 1>>}

\* std::uniform_real_distribution<float>(min, max): the values of
\* [min, max) that are cell values of the model
RandomValues(min, max) == IF min = max THEN {min} ELSE min..(max - 1)

\* randomize: data_[i] = local_dis(local_gen) for i < data_.size()
Randomized(a, min, max) ==
    {VMatrix(a.rows, a.cols, d) :
        d \in [1..Len(a.data) -> RandomValues(min, max)]}

\* data_[index] = value
Stored(a, index, value) == [a EXCEPT !.data[index + 1] = value]

\* The objects after data_[index] = value on the variable x.  operator()
\* and data() test no bound: an index inside the buffer stores there; an
\* index past its end is undefined behaviour, and the store lands in no
\* object or in the buffer of a live one (a run it ends takes no further
\* step).
StoreOutcomes(x, index, value) ==
    IF index < Len(mObj[x].data)
    THEN {[mObj EXCEPT ![x] = Stored(mObj[x], index, value)]}
    ELSE {mObj} \cup
         UNION {{[mObj EXCEPT ![y] = Stored(mObj[y], n, value)] :
                    n \in 0..(Len(mObj[y].data) - 1)} :
                y \in {y \in Slots : Alive(mObj[y])}}

Operation(op, dst, lhs, rhs, threw) ==
    [op |-> op, dst |-> dst, lhs |-> lhs, rhs |-> rhs, threw |-> threw]

InitMatrix ==
    /\ mObj = [x \in Slots |-> NoObject]
    /\ mPrev = [x \in Slots |-> NoObject]
    /\ mLast = NoOperation
    /\ mOps = 0
    /\ num_threads = 1
    /\ EncAtRest
    /\ VerifyAtRest
    /\ KernelAtRest
    /\ HeadsAtRest
    /\ BlockedAtRest
    /\ RandAtRest
    /\ ComponentAtRest
    /\ RegionAtRest
    /\ SoftmaxAtRest
    /\ PathAtRest

\* An operation op on the variables dst, lhs, rhs leaves the objects as in
\* after.
Operate(op, dst, lhs, rhs, threw, after) ==
    /\ mOps < MaxOps
    /\ mOps' = mOps + 1
    /\ mPrev' = mObj
    /\ mObj' = after
    /\ mLast' = Operation(op, dst, lhs, rhs, threw)
    /\ UNCHANGED notMatrixVars

\* Matrix x(rows, cols);
MConstructZero ==
    \E x \in Slots, r \in Dims, c \in Dims :
        /\ ~Alive(mObj[x])
        /\ Operate("construct", x, "", "", FALSE,
                   [mObj EXCEPT ![x] = FilledMatrix(r, c, 0)])

\* Matrix x(rows, cols, value);
MConstructValue ==
    \E x \in Slots, r \in Dims, c \in Dims :
        /\ ~Alive(mObj[x])
        /\ Operate("construct", x, "", "", FALSE,
                   [mObj EXCEPT ![x] = FilledMatrix(r, c, 1)])

\* Matrix x(y);
MCopyConstruct ==
    \E x \in Slots, y \in Slots :
        /\ ~Alive(mObj[x])
        /\ Alive(mObj[y])
        /\ Operate("copy", x, "", y, FALSE,
                   [mObj EXCEPT ![x] = CopyOf(mObj[y])])

\* x = y;  (x and y may be the same variable)
MCopyAssign ==
    \E x \in Slots, y \in Slots :
        /\ Alive(mObj[x])
        /\ Alive(mObj[y])
        /\ Operate("copy_assign", x, "", y, FALSE,
                   IF x # y THEN [mObj EXCEPT ![x] = CopyOf(mObj[y])]
                            ELSE mObj)

\* Matrix x(std::move(y));
MMoveConstruct ==
    \E x \in Slots, y \in Slots :
        /\ ~Alive(mObj[x])
        /\ Alive(mObj[y])
        /\ Operate("move", x, "", y, FALSE,
                   [mObj EXCEPT ![x] = CopyOf(mObj[y]),
                                ![y] = MovedFrom(mObj[y])])

\* x = std::move(y);  (x and y may be the same variable)
MMoveAssign ==
    \E x \in Slots, y \in Slots :
        /\ Alive(mObj[x])
        /\ Alive(mObj[y])
        /\ Operate("move_assign", x, "", y, FALSE,
                   IF x # y THEN [mObj EXCEPT ![x] = CopyOf(mObj[y]),
                                              ![y] = MovedFrom(mObj[y])]
                            ELSE mObj)

\* Matrix z = x * y;
MMultiply ==
    \E z \in Slots, x \in Slots, y \in Slots :
        /\ ~Alive(mObj[z])
        /\ Alive(mObj[x])
        /\ Alive(mObj[y])
        /\ IF MulMismatch(mObj[x], mObj[y])
           THEN Operate("multiply", z, x, y, TRUE, mObj)
           ELSE Operate("multiply", z, x, y, FALSE,
                        [mObj EXCEPT ![z] = Product(mObj[x], mObj[y])])

\* Matrix z = x.multiply_blocked(y);
MMultiplyBlocked ==
    \E z \in Slots, x \in Slots, y \in Slots :
        /\ ~Alive(mObj[z])
        /\ Alive(mObj[x])
        /\ Alive(mObj[y])
        /\ IF MulMismatch(mObj[x], mObj[y])
           THEN Operate("multiply_blocked", z, x, y, TRUE, mObj)
           ELSE Operate("multiply_blocked", z, x, y, FALSE,
                        [mObj EXCEPT ![z] = BlockedProduct(mObj[x], mObj[y])])

\* Matrix z = x + y;
MAdd ==
    \E z \in Slots, x \in Slots, y \in Slots :
        /\ ~Alive(mObj[z])
        /\ Alive(mObj[x])
        /\ Alive(mObj[y])
        /\ IF AddMismatch(mObj[x], mObj[y])
           THEN Operate("add", z, x, y, TRUE, mObj)
           ELSE Operate("add", z, x, y, FALSE,
                        [mObj EXCEPT ![z] = Sum(mObj[x], mObj[y])])

\* x goes out of scope: ~Matrix()
MDestroy ==
    \E x \in Slots :
        /\ Alive(mObj[x])
        /\ Operate("destroy", x, "", "", FALSE,
                   [mObj EXCEPT ![x] = NoObject])

\* x(row, col) = value;
MSetCell ==
    \E x \in Slots, row \in Offsets, col \in Offsets, value \in StoredValues :
        /\ Alive(mObj[x])
        /\ \E after \in StoreOutcomes(x, row * mObj[x].cols + col, value) :
              Operate("set", x, "", "", FALSE, after)

\* x.data()[n] = value;
MDataStore ==
    \E x \in Slots, n \in Offsets, value \in StoredValues :
        /\ Alive(mObj[x])
        /\ \E after \in StoreOutcomes(x, n, value) :
              Operate("data", x, "", "", FALSE, after)

\* Matrix z = x.transpose();
MTranspose ==
    \E z \in Slots, x \in Slots :
        /\ ~Alive(mObj[z])
        /\ Alive(mObj[x])
        /\ Operate("transpose", z, x, "", FALSE,
                   [mObj EXCEPT ![z] = Transposed(mObj[x])])

\* x.randomize(min, max);
MRandomize ==
    \E x \in Slots, range \in RandomRanges :
        /\ Alive(mObj[x])
        /\ \E m \in Randomized(mObj[x], range[1], range[2]) :
              Operate("randomize", x, "", "", FALSE,
                      [mObj EXCEPT ![x] = m])

\* x.zero();
MZero ==
    \E x \in Slots :
        /\ Alive(mObj[x])
        /\ Operate("zero", x, "", "", FALSE,
                   [mObj EXCEPT ![x] = Zeroed(mObj[x])])

NextMatrix ==
    \/ MConstructZero
    \/ MConstructValue
    \/ MCopyConstruct
    \/ MCopyAssign
    \/ MMoveConstruct
    \/ MMoveAssign
    \/ MDestroy
    \/ MSetCell
    \/ MDataStore
    \/ MMultiply
    \/ MMultiplyBlocked
    \/ MAdd
    \/ MTranspose
    \/ MRandomize
    \/ MZero

SpecMatrix == InitMatrix /\ [][NextMatrix]_vars

\* every Matrix object has a buffer of length rows * cols
BuffersMatchShapes ==
    \A x \in DOMAIN mObj :
        Alive(mObj[x]) => Len(mObj[x].data) = mObj[x].rows * mObj[x].cols

\* the last operation was a move construction or a move assignment
LastWasMove == mLast.op \in {"move", "move_assign"}

\* C16 as stated: after any sequence of constructions, copies,
\* copy-assignments, moves and move-assignments, self-assignment included,
\* every Matrix object has a buffer of length rows * cols, and the source
\* of a move has shape (0, 0) and an empty buffer.
C16_MoveSourceEmptied ==
    /\ BuffersMatchShapes
    /\ LastWasMove => mObj[mLast.rhs] = VMatrix(0, 0, <<>>)

\* C16, corrected: after any sequence of calls of the public members, every
\* Matrix object has a buffer of length rows * cols; the source of a move
\* construction, and of a move assignment to another object, has shape
\* (0, 0) and an empty buffer; a move assignment (and a copy assignment) of
\* an object to itself leaves every object, the source included, as it
\* was.
C16_BufferMatchesShape ==
    /\ BuffersMatchShapes
    /\ (LastWasMove /\ mLast.dst # mLast.rhs) =>
          mObj[mLast.rhs] = VMatrix(0, 0, <<>>)
    /\ (mLast.op \in {"move_assign", "copy_assign"} /\ mLast.dst = mLast.rhs) =>
          mObj = mPrev

\* C16 witness: a 2 x 2 matrix has been move-assigned to itself and has
\* kept its shape and its buffer, after a move assignment of another
\* 2 x 2 matrix over a matrix of one column.
C16_Witness ==
    /\ mLast.op = "move_assign"
    /\ mLast.dst = mLast.rhs
    /\ mObj[mLast.dst].rows = 2
    /\ mObj[mLast.dst].cols = 2
    /\ Len(mObj[mLast.dst].data) = 4
    /\ \E y \in Slots : mObj[y] = VMatrix(0, 0, <<>>)

\* C17: multiply (naive and blocked) with A.cols != B.rows and add with
\* operands of different shape raise the validation error, produce no result
\* and leave both operands as they were.
C17_MismatchRaises ==
    LET a == mPrev[mLast.lhs]
        b == mPrev[mLast.rhs]
    IN /\ (mLast.op \in {"multiply", "multiply_blocked"} /\ a.cols # b.rows) =>
             (mLast.threw /\ mObj = mPrev)
       /\ (mLast.op = "add" /\ <<a.rows, a.cols>> # <<b.rows, b.cols>>) =>
             (mLast.threw /\ mObj = mPrev)

\* C17 witness: an add of a 1 x 2 and a 2 x 1 matrix has thrown.
C17_Witness ==
    /\ mLast.op = "add"
    /\ mLast.threw
    /\ mPrev[mLast.lhs].rows = 1
    /\ mPrev[mLast.lhs].cols = 2
    /\ mPrev[mLast.rhs].rows = 2
    /\ mPrev[mLast.rhs].cols = 1

(***************************************************************************)
(* Claims checked under Spec.                                              *)
(***************************************************************************)
ConfigShape == <<config.seq_length, config.embed_dim>>

\* A forward call was made and has left forward (returned or thrown).
CallEnded == calls > 0 /\ pc = "idle"

\* C1: an input whose shape differs from (seq_length, embed_dim) in rows or in
\* columns makes Encoder.forward raise the shape error, on the serial and on
\* the parallel path, before any encoder layer's forward is invoked: such a
\* call never leaves the entry of forward for a layer, logs no layer forward
\* and ends with std::invalid_argument.
C1_MismatchRaisesBeforeLayers ==
    (calls > 0 /\ call.shape # ConfigShape) =>
        /\ pc = "idle"
        /\ result = Thrown
        /\ layer_log = <<>>

\* C1 witness: a parallel-path call whose input has the configured rows but
\* other columns was rejected by an encoder that owns layers.
C1_Witness ==
    /\ CallEnded
    /\ call.par
    /\ call.shape[1] = config.seq_length
    /\ call.shape[2] # config.embed_dim
    /\ layers_ > 0
    /\ result = Thrown

\* C2: whenever embed_dim mod num_heads != 0, whatever seq_length, ff_dim and
\* num_layers are, construction fails with the configuration error and no
\* encoder results.
C2_IndivisibleConfigRejected ==
    (encoder # "none" /\ config.embed_dim % config.num_heads # 0) =>
        encoder = "config_error"

\* C4: for a valid input of shape (seq_length, embed_dim), every num_layers and
\* either value of the flag, forward returns a matrix of shape exactly
\* (seq_length, embed_dim).
C4_OutputShape ==
    (CallEnded /\ call.shape = ConfigShape) =>
        /\ result.kind = "matrix"
        /\ result.mat.shape = ConfigShape

\* C4 witness: a parallel call through two layers returned, with ff_dim
\* different from embed_dim.
C4_Witness ==
    /\ CallEnded
    /\ call.par
    /\ call.shape = ConfigShape
    /\ layers_ = 2
    /\ config.ff_dim # config.embed_dim
    /\ result.kind = "matrix"

\* C5: forward applies the layers strictly in index order, each exactly once,
\* the output of layer i being the input of layer i+1, layer i+1 not started
\* before layer i has finished, and returns the output of the last layer, on
\* both paths.
C5_LayersInOrder ==
    /\ Len(layer_log) <= layers_
    /\ \A n \in 1..Len(layer_log) :
          /\ layer_log[n].layer = n - 1
          /\ n < Len(layer_log) => layer_log[n].done
          /\ layer_log[n].input =
                IF n = 1 THEN InputTerm ELSE layer_log[n - 1].output
    /\ (CallEnded /\ result.kind = "matrix") =>
          /\ Len(layer_log) = layers_
          /\ \A n \in 1..Len(layer_log) : layer_log[n].done
          /\ result.mat.val =
                IF layers_ = 0 THEN InputTerm ELSE layer_log[layers_].output

\* C5 witness: a serial call through two layers has returned.
C5_Witness ==
    /\ CallEnded
    /\ ~call.par
    /\ layers_ = 2
    /\ Len(layer_log) = 2
    /\ result.kind = "matrix"

\* The matrix primitives named by the nested-parallelism policy.
PrimitiveSites == {"operator*", "multiply_blocked", "operator+", "transpose"}

\* C8: a primitive called by a thread already inside a parallel region never
\* opens a parallel region of its own, and during the parallel per-head loop
\* no nested parallel region is ever opened.
C8_NoNestedRegion ==
    \A r \in regions :
        /\ r.site \in PrimitiveSites => ~r.nested
        /\ r.within = "heads" => ~r.nested

\* C9: multiply (naive and blocked), transpose and add engage their parallel
\* loop only when the work estimate exceeds 1000.
C9_ParallelOnlyAboveThreshold ==
    \A r \in regions :
        r.site \in PrimitiveSites => r.work > PAR_THRESHOLD

\* The weight matrices of every layer and the caller's input matrix.
ReadOnlyMatrices ==
    ((0..(MaxLayers - 1)) \X WeightNames) \cup {<<-1, "input">>}

\* C15: a forward call on either path leaves unchanged every weight matrix of
\* every layer and the caller's input matrix; after any sequence of forward
\* calls, successful or failing with a shape error, none of them has been
\* assigned to since construction.
C15_WeightsAndInputUnchanged ==
    assigned \cap ReadOnlyMatrices = {}

\* C15 witness: the second call on an encoder, on the parallel path, has gone
\* through the feed-forward network of the second layer and returned.
C15_Witness ==
    /\ calls = 2
    /\ call.par
    /\ <<1, "hidden">> \in assigned
    /\ <<0, "Q">> \in assigned
    /\ pc = "idle"
    /\ result.kind = "matrix"

\* Y = LayerNorm2(n1 + FFN(n1)) with n1 = LayerNorm1(X + Attention(X)), as a
\* term over the components of layer i
LayerFormula(i, X) ==
    LET a == Term("attention", i, <<X>>)
        r1 == Term("add", 0, <<X, a>>)
        n1 == Term("norm1", i, <<r1>>)
        f == Term("ffn", i, <<n1>>)
        r2 == Term("add", 0, <<n1, f>>)
    IN Term("norm2", i, <<r2>>)

\* The locals a step of the layer's forward reads are complete when the step
\* starts: the tasks of the regions before it have joined and the matrices
\* it reads have been produced.
StepInputsComplete ==
    /\ pc \in {"attn_split", "attn_heads", "attn_concat", "attn_out",
              "residual1", "norm1", "ffn", "residual2", "norm2"} => pending = {}
    /\ pc = "residual1" => frame.attention_output # NoMat
    /\ pc = "norm1" => frame.residual1 # NoMat
    /\ pc = "ffn" => frame.norm1_output # NoMat
    /\ pc = "residual2" => frame.ffn_output # NoMat
    /\ pc = "norm2" => frame.residual2 # NoMat

\* C18: on both paths a layer computes a = Attention(X), r1 = X + a,
\* n1 = LayerNorm1(r1), f = FFN(n1), r2 = n1 + f, Y = LayerNorm2(r2), in this
\* order: the second residual adds n1, the two LayerNorms are distinct
\* components, and each step starts only after the previous one has produced
\* its complete result.
C18_LayerFormula ==
    /\ StepInputsComplete
    /\ \A n \in 1..Len(layer_log) :
          layer_log[n].done =>
              layer_log[n].output =
                  LayerFormula(layer_log[n].layer, layer_log[n].input)

\* C18 witness: the second layer of a parallel call has produced its output.
C18_Witness ==
    /\ call.par
    /\ Len(layer_log) = 2
    /\ layer_log[2].done
    /\ num_threads > 1

\* C19: with parallel_flag = false no parallel region is opened between
\* entry and return of Encoder.forward, by any component or primitive, for
\* every input size and worker count.
C19_SerialOpensNoRegion ==
    (calls > 0 /\ ~call.par) => regions = {}

(***************************************************************************)
(* SpecComponent: MultiHeadAttention::forward, FeedForwardNetwork::forward *)
(* and LayerNorm::forward called directly on a component built from a      *)
(* valid configuration, with an input of any shape.  Matrices are their    *)
(* shapes <<rows, cols>>; every element access the statements make is      *)
(* computed as Matrix::operator() computes it, data_[row * cols_ + col],   *)
(* and kept in cBad when the index is not below the buffer's length.       *)
(***************************************************************************)
MaxDim == 3     \* rows and columns of the input range over 1..MaxDim

ComponentConfigs ==
    [seq_length : {1, 2}, embed_dim : {2}, num_heads : {1, 2}, ff_dim : {1, 2}]

Components == {"MultiHeadAttention", "FeedForwardNetwork", "LayerNorm"}

NoComponentCall == [comp |-> "none", shape |-> <<0, 0>>, par |-> FALSE]


\* the shapes the constructors give the weight members
MemberShape(cfg, name) ==
    CASE name \in {"W_q_", "W_k_", "W_v_", "W_o_"} -> <<cfg.embed_dim, cfg.embed_dim>>
      [] name = "W1_" -> <<cfg.embed_dim, cfg.ff_dim>>
      [] name = "b1_" -> <<1, cfg.ff_dim>>
      [] name = "W2_" -> <<cfg.ff_dim, cfg.embed_dim>>
      [] name \in {"b2_", "gamma_", "beta_"} -> <<1, cfg.embed_dim>>

\* the index pairs of a loop nest  for i < rows, for j < cols
Cells(rows, cols) == (0..(rows - 1)) \X (0..(cols - 1))

\* operator(): data_[row * cols_ + col]
FlatIndex(shape, row, col) == row * shape[2] + col

\* data_.size() of a matrix built as Matrix(rows, cols)
BufferLength(shape) == shape[1] * shape[2]

\* the accesses name(row, col), <<row, col>> in cells, that fall outside
\* the buffer of a matrix of this shape
Outside(name, shape, cells) ==
    {[matrix |-> name, row |-> c[1], col |-> c[2]] :
        c \in {d \in cells :
                 FlatIndex(shape, d[1], d[2]) >= BufferLength(shape)}}

\* if (cols_ != other.rows_) throw std::invalid_argument
ShapeMismatch(a, b) == a[2] # b[1]

\* Matrix result(rows_, other.cols_)
ProductShape(a, b) == <<a[1], b[2]>>

\* (*this)(i, k), other(k, j) and result(i, j) of the product loops
ProductOutside(an, a, bn, b) ==
    Outside(an, a, Cells(a[1], a[2]))
      \cup Outside(bn, b, Cells(a[2], b[2]))
      \cup Outside("result", ProductShape(a, b), Cells(a[1], b[2]))

\* split_heads: heads[h](i, j) = input(i, h * head_dim_ + j)
SplitCells(cfg) ==
    {<<c[1], h * HeadDim(cfg) + c[2]>> :
        c \in Cells(cfg.seq_length, HeadDim(cfg)), h \in 0..(cfg.num_heads - 1)}

SplitOutside(cfg, name, shape) ==
    Outside(name, shape, SplitCells(cfg))
      \cup Outside("heads[h]", <<cfg.seq_length, HeadDim(cfg)>>,
                   Cells(cfg.seq_length, HeadDim(cfg)))

\* concat_heads: result(i, h * head_dim_ + j) = heads[h](i, j)
ConcatOutside(cfg) ==
    Outside("result", <<cfg.seq_length, cfg.embed_dim>>, SplitCells(cfg))
      \cup Outside("heads[h]", <<cfg.seq_length, HeadDim(cfg)>>,
                   Cells(cfg.seq_length, HeadDim(cfg)))

\* scaled_dot_product_attention on one head: K.transpose(), the score
\* loops Q(i, k) * K_T(k, j), softmax and attention_weights * V
AttendOutside(q, k, v) ==
    LET K_T == <<k[2], k[1]>>
        scores == <<q[1], k[1]>>
    IN  Outside("K", k, Cells(k[1], k[2]))
          \cup Outside("K_T", K_T, Cells(k[2], k[1]))
          \cup Outside("Q", q, Cells(q[1], q[2]))
          \cup Outside("K_T", K_T, Cells(q[2], k[1]))
          \cup Outside("scores", scores, Cells(q[1], k[1]))
          \cup ProductOutside("attention_weights", scores, "V", v)

\* hidden(i, j) += b1_(0, j)  /  output(i, j) += b2_(0, j)
BiasOutside(name, shape, bn, b) ==
    Outside(name, shape, Cells(shape[1], shape[2]))
      \cup Outside(bn, b, Cells(1, shape[2]))

\* LayerNorm: input(i, j), result(i, j), gamma_(0, j), beta_(0, j) for
\* i < input.rows(), j < input.cols()
NormOutside(cfg, input) ==
    Outside("input", input, Cells(input[1], input[2]))
      \cup Outside("result", input, Cells(input[1], input[2]))
      \cup Outside("gamma_", MemberShape(cfg, "gamma_"), Cells(1, input[2]))
      \cup Outside("beta_", MemberShape(cfg, "beta_"), Cells(1, input[2]))

\* how a call whose statement read or wrote outside a buffer may go on:
\* the access is undefined; the build either runs on or is killed
AfterAccess(bad, next) ==
    IF bad = {} THEN {next} ELSE {next, "killed"}

\* an exception thrown by a statement: it leaves the call on the serial
\* path; inside the sections construct of forward_parallel it cannot leave
\* the structured block and the program is terminated
ThrowEnd(inRegion) == IF inRegion THEN "terminated" ELSE "invalid_argument"

InitComponent ==
    /\ cCfg \in ComponentConfigs
    /\ cCall = NoComponentCall
    /\ cPc = "idle"
    /\ cLocal = <<>>
    /\ cBad = {}
    /\ cEnd = "none"
    /\ num_threads = 1
    /\ EncAtRest
    /\ VerifyAtRest
    /\ KernelAtRest
    /\ HeadsAtRest
    /\ BlockedAtRest
    /\ RandAtRest
    /\ MatrixAtRest
    /\ RegionAtRest
    /\ SoftmaxAtRest
    /\ PathAtRest

\* the statement moves on, or the call ends
Goes(next, bad, locals) ==
    /\ cBad' = cBad \cup bad
    /\ cLocal' = locals @@ cLocal
    /\ \E to \in AfterAccess(bad, next) :
          IF to \in {"killed", "returned"}
          THEN cPc' = "idle" /\ cEnd' = to
          ELSE cPc' = to /\ cEnd' = cEnd
    /\ UNCHANGED <<cCfg, cCall, num_threads, notComponentVars>>

Throws(inRegion) ==
    /\ cPc' = "idle"
    /\ cEnd' = ThrowEnd(inRegion)
    /\ UNCHANGED <<cCfg, cCall, cLocal, cBad, num_threads, notComponentVars>>

\* component.forward(input, use_parallel)
ComponentCall ==
    /\ cPc = "idle"
    /\ cEnd \notin {"killed", "terminated"}
    /\ \E comp \in Components, r \in 1..MaxDim, c \in 1..MaxDim, par \in BOOLEAN :
          /\ cCall' = [comp |-> comp, shape |-> <<r, c>>, par |-> par]
          /\ cPc' = CASE comp = "MultiHeadAttention" -> "project"
                      [] comp = "FeedForwardNetwork" -> "hidden"
                      [] comp = "LayerNorm" -> "normalize"
    /\ cLocal' = <<>>
    /\ cBad' = {}
    /\ cEnd' = "none"
    /\ UNCHANGED <<cCfg, num_threads, notComponentVars>>

\* Q = input * W_q_; K = input * W_k_; V = input * W_v_
\* (parallel: multiply_blocked in three sections)
AttentionProject ==
    /\ cPc = "project"
    /\ LET w == MemberShape(cCfg, "W_q_")
           p == ProductShape(cCall.shape, w)
       IN  IF ShapeMismatch(cCall.shape, w)
           THEN Throws(cCall.par)
           ELSE Goes("split", ProductOutside("input", cCall.shape, "W_q_", w),
                     ("Q" :> p) @@ ("K" :> p) @@ ("V" :> p))

\* split_heads(Q, Q_heads); split_heads(K, K_heads); split_heads(V, V_heads)
AttentionSplit ==
    /\ cPc = "split"
    /\ LET head == <<cCfg.seq_length, HeadDim(cCfg)>>
       IN  Goes("attend",
                SplitOutside(cCfg, "Q", cLocal["Q"])
                  \cup SplitOutside(cCfg, "K", cLocal["K"])
                  \cup SplitOutside(cCfg, "V", cLocal["V"]),
                ("Q_heads" :> head) @@ ("K_heads" :> head) @@ ("V_heads" :> head))

\* attention_outputs[h] = scaled_dot_product_attention(Q_heads[h], ...)
AttentionAttend ==
    /\ cPc = "attend"
    /\ Goes("concat",
            AttendOutside(cLocal["Q_heads"], cLocal["K_heads"], cLocal["V_heads"]),
            "attention_outputs"
               :> ProductShape(<<cLocal["Q_heads"][1], cLocal["K_heads"][1]>>,
                               cLocal["V_heads"]))

\* Matrix concat_output = concat_heads(attention_outputs)
AttentionConcat ==
    /\ cPc = "concat"
    /\ Goes("output", ConcatOutside(cCfg),
            "concat_output" :> <<cCfg.seq_length, cCfg.embed_dim>>)

\* return concat_output * W_o_
AttentionOutput ==
    /\ cPc = "output"
    /\ LET w == MemberShape(cCfg, "W_o_")
       IN  IF ShapeMismatch(cLocal["concat_output"], w)
           THEN Throws(FALSE)
           ELSE Goes("returned",
                     ProductOutside("concat_output", cLocal["concat_output"], "W_o_", w),
                     "return" :> ProductShape(cLocal["concat_output"], w))

\* Matrix hidden = input * W1_
FfnHidden ==
    /\ cPc = "hidden"
    /\ LET w == MemberShape(cCfg, "W1_")
       IN  IF ShapeMismatch(cCall.shape, w)
           THEN Throws(FALSE)
           ELSE Goes("bias1", ProductOutside("input", cCall.shape, "W1_", w),
                     "hidden" :> ProductShape(cCall.shape, w))

\* hidden(i, j) += b1_(0, j)
FfnBias1 ==
    /\ cPc = "bias1"
    /\ Goes("relu",
            BiasOutside("hidden", cLocal["hidden"], "b1_", MemberShape(cCfg, "b1_")),
            <<>>)

\* Matrix activated = relu(hidden, use_parallel)
FfnRelu ==
    /\ cPc = "relu"
    /\ Goes("ffn_output",
            Outside("input", cLocal["hidden"],
                    Cells(cLocal["hidden"][1], cLocal["hidden"][2])),
            "activated" :> cLocal["hidden"])

\* Matrix output = activated * W2_
FfnOutput ==
    /\ cPc = "ffn_output"
    /\ LET w == MemberShape(cCfg, "W2_")
       IN  IF ShapeMismatch(cLocal["activated"], w)
           THEN Throws(FALSE)
           ELSE Goes("bias2",
                     ProductOutside("activated", cLocal["activated"], "W2_", w),
                     "output" :> ProductShape(cLocal["activated"], w))

\* output(i, j) += b2_(0, j); return output
FfnBias2 ==
    /\ cPc = "bias2"
    /\ Goes("returned",
            BiasOutside("output", cLocal["output"], "b2_", MemberShape(cCfg, "b2_")),
            "return" :> cLocal["output"])

\* LayerNorm::forward_serial / forward_parallel
NormForward ==
    /\ cPc = "normalize"
    /\ Goes("returned", NormOutside(cCfg, cCall.shape), "return" :> cCall.shape)

NextComponent ==
    \/ ComponentCall
    \/ AttentionProject
    \/ AttentionSplit
    \/ AttentionAttend
    \/ AttentionConcat
    \/ AttentionOutput
    \/ FfnHidden
    \/ FfnBias1
    \/ FfnRelu
    \/ FfnOutput
    \/ FfnBias2
    \/ NormForward

SpecComponent == InitComponent /\ [][NextComponent]_vars

\* C20: a component's forward called directly with an input whose shape
\* is not (seq_length, embed_dim) ends with a shape error, and no call
\* reads or writes a cell outside a matrix buffer.
C20_DirectCallRaisesShapeError ==
    /\ cBad = {}
    /\ (/\ cCall.comp \in Components
        /\ cCall.shape # <<cCfg.seq_length, cCfg.embed_dim>>
        /\ cPc = "idle")
          => cEnd = "invalid_argument"

(***************************************************************************)
(* The stages of MultiHeadAttention::forward_parallel.                     *)
(***************************************************************************)
\* the positions of a call inside MultiHeadAttention::forward
AttentionStages ==
    {"attn_qkv", "attn_sections", "attn_split", "attn_heads",
     "attn_head_tasks", "attn_concat", "attn_out"}

\* projections, head split, per-head attention, concatenation, output
\* projection: the moves of control from one stage to the next
ParallelStageOrder ==
    {<<"attn_qkv", "attn_sections">>, <<"attn_sections", "attn_split">>,
     <<"attn_split", "attn_heads">>, <<"attn_heads", "attn_head_tasks">>,
     <<"attn_head_tasks", "attn_concat">>, <<"attn_concat", "attn_out">>,
     <<"attn_out", "residual1">>}

\* C21: on the parallel path control moves through the attention stages
\* in the order projections, split, per-head attention, concatenation,
\* output projection; the split is made only when the three projection
\* tasks have all run, each by multiply_blocked; the concatenation is made
\* only when every head task has run.
C21_ParallelStagesInOrder ==
    [][(call.par /\ pc \in AttentionStages /\ pc' # pc) =>
          /\ <<pc, pc'>> \in ParallelStageOrder
          /\ pc = "attn_split" =>
                /\ pending = {}
                /\ \A n \in {"Q", "K", "V"} : frame.kernel[n] = "multiply_blocked"
          /\ pc = "attn_concat" =>
                /\ pending = {}
                /\ Len(frame.outs) = config.num_heads]_vars

\* a parallel call on two threads with two heads has left the attention
\* block of a layer: the three sections and both head tasks have run
C21_Witness ==
    /\ call.par
    /\ num_threads > 1
    /\ config.num_heads > 1
    /\ pc = "residual1"
    /\ \A n \in {"Q", "K", "V"} : frame.kernel[n] = "multiply_blocked"
    /\ frame.attention_output # NoMat

(***************************************************************************)
(* SpecFair: the encoder under fair scheduling.  The steps of a call that   *)
(* has been entered are steps of threads that are running: the calling     *)
(* thread and the threads of the team of a region.  A thread that can take *)
(* a step is eventually scheduled; calls and changes of the thread count   *)
(* are the caller's choice and carry no fairness.                          *)
(***************************************************************************)
\* a step of a forward call under way
CallStep ==
    \/ LayerForward
    \/ ForwardReturn
    \/ AttnProjectSerial
    \/ AttnSectionsFork
    \/ \E t \in 1..3 : SectionRun(t)
    \/ SectionsJoin
    \/ AttnSplit
    \/ AttnHeadsSerial
    \/ AttnHeadsFork
    \/ \E h \in 1..config.num_heads : HeadRun(h)
    \/ HeadsJoin
    \/ AttnConcat
    \/ AttnOut
    \/ Residual1
    \/ Norm1
    \/ Ffn
    \/ Residual2
    \/ Norm2

SpecFair == Init /\ [][Next]_vars /\ WF_vars(CallStep)

\* forward has returned a matrix or thrown
CallFinished ==
    /\ pc = "idle"
    /\ result.kind \in {"matrix", "invalid_argument"}

\* C25: every forward call that is entered finishes, by returning a matrix
\* or by throwing, on both paths and for every thread count; a call that
\* waits at the barrier of the sections or of the per-head loop leaves it.
C25_ForwardFinishes ==
    /\ (pc # "idle") ~> CallFinished
    /\ (pc = "attn_sections") ~> (pc = "attn_split")
    /\ (pc = "attn_head_tasks") ~> (pc = "attn_concat")

\* a parallel call through at least one layer has returned its matrix with
\* several threads and several heads
C25_Witness ==
    /\ calls > 0
    /\ call.par
    /\ num_threads > 1
    /\ config.num_heads > 1
    /\ layers_ > 0
    /\ pc = "idle"
    /\ result.kind = "matrix"
    /\ Len(layer_log) = layers_

(***************************************************************************)
(* SpecRegion: one parallel region of the forward pass, run by a team.     *)
(* A region is a construct (its site) and the sizes of its loop; each      *)
(* iteration of the worksharing loop (each section) is run by some thread  *)
(* of the team, and the cells it reads and writes are those of the index   *)
(* expressions of the loop body.  A cell is <<object, element, index>>:    *)
(* a matrix, the element of a vector of matrices (0 otherwise), and the    *)
(* position in data_; a scalar declared in the loop body is one object per *)
(* iteration.                                                              *)
(***************************************************************************)
RegionDims == {1, 2}

RegionSites ==
    {"sections", "head_loop", "multiply_blocked", "operator*", "operator+",
     "transpose", "split_heads", "concat_heads", "ffn_bias", "relu",
     "sdpa_scores", "softmax", "layer_norm"}

\* <<rows, cols, inner, heads>> of the regions of a site
RegionShapes(site) ==
    CASE site \in {"sections", "operator*", "sdpa_scores"} ->
            RegionDims \X RegionDims \X RegionDims \X {1}
      [] site = "multiply_blocked" ->
            {d \in {1, BLOCK_SIZE + 1} \X {1, BLOCK_SIZE + 1}
                      \X {1, BLOCK_SIZE + 1} \X {1} :
                Tiled(<<d[1], d[3]>>, <<d[3], d[2]>>)}
      [] site \in {"head_loop", "split_heads", "concat_heads"} ->
            RegionDims \X RegionDims \X {1} \X {2, 3}
      [] OTHER -> RegionDims \X RegionDims \X {1} \X {1}

Regions ==
    UNION {{[site |-> site, rows |-> d[1], cols |-> d[2], inner |-> d[3],
             heads |-> d[4]] : d \in RegionShapes(site)} : site \in RegionSites}

\* the number of blocks a loop  for (b = 0; b < n; b += BLOCK_SIZE)  runs
BlockCount(n) == (n + BLOCK_SIZE - 1) \div BLOCK_SIZE

\* the iterations the construct shares out: sections, the iterations of a
\* parallel for, the pairs of the two outer loops under collapse(2)
IterationCount(reg) ==
    CASE reg.site = "sections" -> 3
      [] reg.site = "head_loop" -> reg.heads
      [] reg.site = "multiply_blocked" -> BlockCount(reg.rows) * BlockCount(reg.cols)
      [] reg.site \in {"operator*", "transpose", "ffn_bias", "sdpa_scores"} ->
            reg.rows * reg.cols
      [] reg.site \in {"operator+", "relu"} -> reg.rows * reg.cols
      [] reg.site \in {"split_heads", "concat_heads"} -> reg.heads * reg.rows
      [] reg.site \in {"softmax", "layer_norm"} -> reg.rows

\* cells of a matrix
Elements(name, element, indices) == {<<name, element, n>> : n \in indices}

Whole(name, element, rows, cols) ==
    Elements(name, element, 0..(rows * cols - 1))

\* m(i, j) for every j
RowOf(name, element, cols, i) ==
    Elements(name, element, {FlatIndex(<<0, cols>>, i, j) : j \in 0..(cols - 1)})

\* m(k, j) for every k
ColumnOf(name, element, rows, cols, j) ==
    Elements(name, element, {FlatIndex(<<0, cols>>, k, j) : k \in 0..(rows - 1)})

ScalarOwner_Enclosing(it) == 0

\* A variable declared inside the body of the loop (float sum = 0.0f; float
\* mean; size_t i_end): each iteration has its own.
ScalarOwner(it) == it

Scalars(names, it) == {<<n, ScalarOwner(it), 0>> : n \in names}

\* the weight a section multiplies by
SectionWeight == <<"W_q_", "W_k_", "W_v_">>

\* The cells an iteration reads.
IterationReads(reg, it) ==
    LET r == reg.rows
        c == reg.cols
        n == reg.inner
        i == it \div c
        j == it % c
    IN  CASE reg.site = "sections" ->
                Whole("input", 0, r, n) \cup Whole(SectionWeight[it + 1], 0, n, c)
          [] reg.site = "head_loop" ->
                Whole("Q_heads", it, r, c) \cup Whole("K_heads", it, r, c)
                   \cup Whole("V_heads", it, r, c)
                   \cup Elements("head_dim_", 0, {0})
          [] reg.site = "multiply_blocked" ->
                LET bi == (it \div BlockCount(c)) * BLOCK_SIZE
                    bj == (it % BlockCount(c)) * BLOCK_SIZE
                    is == bi..(BlockEnd(bi, r) - 1)
                    js == bj..(BlockEnd(bj, c) - 1)
                IN  UNION {RowOf("this", 0, n, a) : a \in is}
                      \cup UNION {ColumnOf("other", 0, n, c, b) : b \in js}
                      \cup Elements("result", 0,
                              {FlatIndex(<<r, c>>, a, b) : a \in is, b \in js})
                      \cup Scalars({"i_end", "j_end", "k_end", "sum"}, it)
          [] reg.site = "operator*" ->
                RowOf("this", 0, n, i) \cup ColumnOf("other", 0, n, c, j)
                   \cup Scalars({"sum"}, it)
          [] reg.site = "sdpa_scores" ->
                RowOf("Q", 0, n, i) \cup ColumnOf("K_T", 0, n, c, j)
                   \cup Scalars({"sum"}, it)
          [] reg.site = "operator+" ->
                Elements("this", 0, {it}) \cup Elements("other", 0, {it})
          [] reg.site = "transpose" ->
                Elements("this", 0, {FlatIndex(<<r, c>>, i, j)})
          [] reg.site = "split_heads" ->
                LET h == it \div r
                    row == it % r
                IN  Elements("input", 0,
                       {FlatIndex(<<r, reg.heads * c>>, row, h * c + b) : b \in 0..(c - 1)})
          [] reg.site = "concat_heads" ->
                RowOf("heads", it \div r, c, it % r)
          [] reg.site = "ffn_bias" ->
                Elements("hidden", 0, {FlatIndex(<<r, c>>, i, j)})
                   \cup Elements("b1_", 0, {FlatIndex(<<1, c>>, 0, j)})
          [] reg.site = "relu" -> Elements("input", 0, {it})
          [] reg.site = "softmax" ->
                RowOf("input", 0, c, it) \cup RowOf("result", 0, c, it)
                   \cup Scalars({"max_val", "sum"}, it)
          [] reg.site = "layer_norm" ->
                RowOf("input", 0, c, it) \cup RowOf("gamma_", 0, c, 0)
                   \cup RowOf("beta_", 0, c, 0)
                   \cup Scalars({"mean", "variance", "std_dev"}, it)

\* The cells an iteration writes.
IterationWrites(reg, it) ==
    LET r == reg.rows
        c == reg.cols
        i == it \div c
        j == it % c
    IN  CASE reg.site = "sections" -> Whole(SectionName[it + 1], 0, r, c)
          [] reg.site = "head_loop" -> Whole("attention_outputs", it, r, c)
          [] reg.site = "multiply_blocked" ->
                LET bi == (it \div BlockCount(c)) * BLOCK_SIZE
                    bj == (it % BlockCount(c)) * BLOCK_SIZE
                IN  Elements("result", 0,
                       {FlatIndex(<<r, c>>, a, b) :
                           a \in bi..(BlockEnd(bi, r) - 1),
                           b \in bj..(BlockEnd(bj, c) - 1)})
                      \cup Scalars({"i_end", "j_end", "k_end", "sum"}, it)
          [] reg.site = "operator*" ->
                Elements("result", 0, {FlatIndex(<<r, c>>, i, j)})
                   \cup Scalars({"sum"}, it)
          [] reg.site = "sdpa_scores" ->
                Elements("scores", 0, {FlatIndex(<<r, c>>, i, j)})
                   \cup Scalars({"sum"}, it)
          [] reg.site \in {"operator+", "relu"} -> Elements("result", 0, {it})
          [] reg.site = "transpose" ->
                Elements("result", 0, {FlatIndex(<<c, r>>, j, i)})
          [] reg.site = "split_heads" -> RowOf("heads", it \div r, c, it % r)
          [] reg.site = "concat_heads" ->
                LET h == it \div r
                    row == it % r
                IN  Elements("result", 0,
                       {FlatIndex(<<r, reg.heads * c>>, row, h * c + b) : b \in 0..(c - 1)})
          [] reg.site = "ffn_bias" ->
                Elements("hidden", 0, {FlatIndex(<<r, c>>, i, j)})
          [] reg.site = "softmax" ->
                RowOf("result", 0, c, it) \cup Scalars({"max_val", "sum"}, it)
          [] reg.site = "layer_norm" ->
                RowOf("result", 0, c, it)
                   \cup Scalars({"mean", "variance", "std_dev"}, it)

InitRegion ==
    /\ num_threads \in 1..MaxThreads
    /\ wRegion \in Regions
    /\ wPhase = "outside"
    /\ wPending = {}
    /\ wReads = [t \in Team |-> {}]
    /\ wWrites = [t \in Team |-> {}]
    /\ EncAtRest
    /\ VerifyAtRest
    /\ KernelAtRest
    /\ HeadsAtRest
    /\ BlockedAtRest
    /\ RandAtRest
    /\ MatrixAtRest
    /\ ComponentAtRest
    /\ SoftmaxAtRest
    /\ PathAtRest

\* the encountering thread meets the construct: the team is formed and the
\* iterations are shared out
RegionFork ==
    /\ wPhase = "outside"
    /\ wPhase' = "inside"
    /\ wPending' = 0..(IterationCount(wRegion) - 1)
    /\ UNCHANGED <<wRegion, wReads, wWrites, num_threads, notRegionVars>>

\* a thread of the team runs one of the iterations left
IterationRun ==
    /\ wPhase = "inside"
    /\ \E it \in wPending, t \in Team :
          /\ wPending' = wPending \ {it}
          /\ wReads' = [wReads EXCEPT ![t] = @ \cup IterationReads(wRegion, it)]
          /\ wWrites' = [wWrites EXCEPT ![t] = @ \cup IterationWrites(wRegion, it)]
    /\ UNCHANGED <<wRegion, wPhase, num_threads, notRegionVars>>

\* the implicit barrier at the end of the construct
RegionJoin ==
    /\ wPhase = "inside"
    /\ Joined(wPending)
    /\ wPhase' = "joined"
    /\ UNCHANGED <<wRegion, wPending, wReads, wWrites, num_threads, notRegionVars>>

NextRegion ==
    \/ RegionFork
    \/ IterationRun
    \/ RegionJoin

SpecRegion == InitRegion /\ [][NextRegion]_vars

\* C22: in every parallel region of the forward pass no cell written by one
\* thread is read or written by another: the threads write pairwise
\* disjoint sets of cells and share only cells that none of them writes.
C22_NoConflictingAccess ==
    \A t \in DOMAIN wWrites, u \in DOMAIN wWrites :
        t # u => wWrites[t] \cap (wWrites[u] \cup wReads[u]) = {}

\* a region has been run to its barrier by two threads that both wrote
\* cells and both read some cell
C22_Witness ==
    /\ wPhase = "joined"
    /\ num_threads > 1
    /\ wWrites[0] # {}
    /\ wWrites[1] # {}
    /\ wReads[0] \cap wReads[1] # {}

(***************************************************************************)
(* SpecSoftmax: MultiHeadAttention::scaled_dot_product_attention from the  *)
(* scores on, and MultiHeadAttention::softmax row by row.  The scores are  *)
(* floats (finite, +Inf, -Inf, NaN); std::exp is not evaluated: a result   *)
(* cell is the argument handed to std::exp and the cells whose             *)
(* exponentials were added into the sum it is divided by.                  *)
(***************************************************************************)
SoftmaxDims == {1, 2}

\* scores of <<rows, cols>>, any floats
ScoreMatrices ==
    UNION {{VMatrix(d[1], d[2], data) : data \in [1..(d[1] * d[2]) -> Floats]} :
              d \in SoftmaxDims \X SoftmaxDims}

\* std::max(a, b): (a < b) ? b : a
StdMax(a, b) == IF FGt(b, a) THEN b ELSE a

\* row i of a matrix, as the sequence of its cells
RowValues(m, i) == [j \in 1..m.cols |-> At(m, i, j - 1)]

\* max_val = std::max(max_val, input(i, j)) for the columns order[n..]
RECURSIVE MaxFrom(_, _, _, _)
MaxFrom(max_val, row, order, n) ==
    IF n > Len(order) THEN max_val
    ELSE MaxFrom(StdMax(max_val, row[order[n]]), row, order, n + 1)

\* reduction(max : max_val): the lanes the build may run the iterations
\* j = 1.. on, one private copy of max_val per lane
Lanes(cols) == 1..cols

LaneAssignments(cols) == [2..cols -> Lanes(cols)]

\* the private copy of a lane, initialised to the least float, after the
\* iterations of the lane: max_val = std::max(max_val, input(i, j))
RECURSIVE LaneFrom(_, _, _, _, _)
LaneFrom(max_val, row, lane, l, j) ==
    IF j > Len(row) THEN max_val
    ELSE LaneFrom(IF lane[j] = l THEN StdMax(max_val, row[j]) ELSE max_val,
                  row, lane, l, j + 1)

\* the combiner of reduction(max): omp_out = omp_in > omp_out ? omp_in :
\* omp_out, either value being omp_in
Combine(a, b) == {StdMax(a, b), StdMax(b, a)}

\* the original max_val and the private copies combined two by two, in an
\* order the build chooses
RECURSIVE CombineOutcomes(_)
CombineOutcomes(values) ==
    IF Cardinality(values) <= 1 THEN values
    ELSE UNION {CombineOutcomes((values \ {p[1], p[2]}) \cup {v}) :
                   <<p, v>> \in {<<p, v>> \in (values \X values) \X values :
                                    p[1] # p[2] /\ v \in Combine(p[1], p[2])}}

\* float max_val = input(i, 0), then the loop over j = 1.. ; under
\* '#pragma omp simd reduction(max : max_val)' the iterations run on
\* private copies of max_val that are combined with the original after the
\* loop, or in program order on the original when the build keeps the loop
\* scalar
MaxOutcomes(row, par) ==
    LET serial == MaxFrom(row[1], row, [j \in 1..Len(row) |-> j], 2)
    IN  IF par
        THEN {serial} \cup
             UNION {CombineOutcomes(
                       {row[1]} \cup {LaneFrom(NegInf, row, lane, l, 2) :
                                         l \in Lanes(Len(row))}) :
                    lane \in LaneAssignments(Len(row))}
        ELSE {serial}

\* float sum = 0.0f, declared in the body of the row loop; then
\* sum += result(i, j) for every j of the row
SumTerms(i, cols) == [j \in 1..cols |-> <<i, j - 1>>]

\* the rows softmax may run next: any row in a team of several threads
\* under '#pragma omp parallel for', the next in program order otherwise
SoftmaxMayRun(i) ==
    /\ i \in sPending
    /\ (~sPar \/ num_threads = 1) => \A other \in sPending : i <= other

InitSoftmax ==
    /\ sIn \in ScoreMatrices
    /\ sPar \in BOOLEAN
    /\ sPhase = "scores"
    /\ sPending = {}
    /\ sMax = <<>>
    /\ sArg = <<>>
    /\ sDen = <<>>
    /\ sLog = <<>>
    /\ num_threads \in 1..MaxThreads
    /\ EncAtRest
    /\ VerifyAtRest
    /\ KernelAtRest
    /\ HeadsAtRest
    /\ BlockedAtRest
    /\ RandAtRest
    /\ MatrixAtRest
    /\ ComponentAtRest
    /\ RegionAtRest
    /\ PathAtRest

\* the score loops: scores(i, j) = sum * scale
SdpaScores ==
    /\ sPhase = "scores"
    /\ sLog' = sLog \o <<"dot", "scale">>
    /\ sPhase' = "softmax"
    /\ UNCHANGED <<sIn, sPar, sPending, sMax, sArg, sDen, notSoftmaxVars>>

\* Matrix attention_weights = softmax(scores, use_parallel): entry,
\* Matrix result(input.rows(), input.cols())
SoftmaxEnter ==
    /\ sPhase = "softmax"
    /\ sLog' = Append(sLog, "softmax")
    /\ sPending' = 0..(sIn.rows - 1)
    /\ sPhase' = "rows"
    /\ UNCHANGED <<sIn, sPar, sMax, sArg, sDen, notSoftmaxVars>>

\* one iteration of the row loop: the maximum, the exponentials and their
\* sum, the division
SoftmaxRow ==
    /\ sPhase = "rows"
    /\ \E i \in sPending :
          /\ SoftmaxMayRun(i)
          /\ \E max_val \in MaxOutcomes(RowValues(sIn, i), sPar) :
                /\ sMax' = (i :> max_val) @@ sMax
                /\ sArg' = (i :> [j \in 1..sIn.cols |->
                                    FSub(At(sIn, i, j - 1), max_val)]) @@ sArg
          /\ sDen' = (i :> SumTerms(i, sIn.cols)) @@ sDen
          /\ sPending' = sPending \ {i}
    /\ UNCHANGED <<sIn, sPar, sPhase, sLog, notSoftmaxVars>>

\* return result (of softmax)
SoftmaxReturn ==
    /\ sPhase = "rows"
    /\ Joined(sPending)
    /\ sPhase' = "weights"
    /\ UNCHANGED <<sIn, sPar, sPending, sMax, sArg, sDen, sLog, notSoftmaxVars>>

\* return attention_weights * V
SdpaReturn ==
    /\ sPhase = "weights"
    /\ sLog' = Append(sLog, "multiply_V")
    /\ sPhase' = "done"
    /\ UNCHANGED <<sIn, sPar, sPending, sMax, sArg, sDen, notSoftmaxVars>>

NextSoftmax ==
    \/ SdpaScores
    \/ SoftmaxEnter
    \/ SoftmaxRow
    \/ SoftmaxReturn
    \/ SdpaReturn

SpecSoftmax == InitSoftmax /\ [][NextSoftmax]_vars

\* the rows softmax has finished
RowsDone == DOMAIN sMax

\* entry j of row i is a maximum of its row: no entry of the row is greater
\* and it compares with every one
IsRowMaximum(i, j) ==
    \A k \in 1..sIn.cols : FLe(At(sIn, i, k - 1), At(sIn, i, j - 1))

\* the statement of C24 on the rows in rows
SoftmaxStatement(rows) ==
    /\ \A i \in rows :
          /\ \A j \in 1..sIn.cols : FLe(sArg[i][j], Fin(0))
          /\ \E j \in 1..sIn.cols : IsRowMaximum(i, j)
          /\ \A j \in 1..sIn.cols : IsRowMaximum(i, j) => sArg[i][j] = Fin(0)
          /\ sDen[i] = [j \in 1..sIn.cols |-> <<i, j - 1>>]
    /\ \A n \in 1..Len(sLog) :
          sLog[n] = "softmax" =>
              /\ \E m \in 1..(n - 1) : sLog[m] = "scale"
              /\ \A m \in n..Len(sLog) : sLog[m] # "scale"

\* C24: in the serial and the parallel softmax, for every row the value
\* subtracted is the row's maximum, so every argument of exp is <= 0 and
\* that of a maximal entry is 0; each entry is divided by the sum of the
\* exponentials of its own row; the scores are scaled before softmax.
C24_SoftmaxSubtractsRowMax ==
    SoftmaxStatement(RowsDone)

\* the same on the rows whose entries are all finite
SoftmaxOnFiniteRows ==
    SoftmaxStatement({i \in RowsDone :
                         \A j \in 1..sIn.cols : IsFinite(At(sIn, i, j - 1))})

(***************************************************************************)
(* SpecSerial: TransformerEncoder::forward_serial at the level of cells.   *)
(*                                                                         *)
(* The call runs the statements of the serial path in program order: for   *)
(* each layer those of MultiHeadAttention::forward_serial (with            *)
(* scaled_dot_product_attention and softmax for each head), the residual   *)
(* additions, LayerNorm::forward_serial and                                *)
(* FeedForwardNetwork::forward_serial.  Every statement is a loop; the     *)
(* iterations of a worksharing loop whose if clause holds are run by the   *)
(* threads of the team in any order, those of every other loop in program  *)
(* order; an iteration reads the cells of its index expressions from the   *)
(* memory as it is when the iteration runs.                                *)
(*                                                                         *)
(* A float is kept as a value: 0 is 0.0f, a negative value is one of the   *)
(* floats the encoder and the input were filled with, and a positive value *)
(* n is the float computed by the expression pTable[n] over the values of  *)
(* its operands, taken in the order the code takes them.  Every float      *)
(* operator, std::exp, std::sqrt and std::max gives the same bits on the   *)
(* same operand bits, so two cells that hold the same value hold the same  *)
(* bits.                                                                   *)
(*                                                                         *)
(* With matrices of these sizes the if clauses of operator*, operator+ and *)
(* transpose are false; the parallel loop of operator* is that of          *)
(* SpecKernel, whose runs are the other behaviours of SpecSerial.          *)
(***************************************************************************)
PathConfigs ==
    [seq_length : {1, 2}, embed_dim : {2}, num_heads : {1, 2}, ff_dim : {1, 2},
     num_layers : 0..MaxLayers]

\* 0.0f, and 1.0f (gamma_(1, embed_dim, 1.0f))
ZeroValue == 0
OneValue == -1

\* the matrices filled by randomize, and the caller's input
FilledMembers ==
    <<"input", "W_q_", "W_k_", "W_v_", "W_o_", "W1_", "b1_", "W2_", "b2_">>

\* the value that fills cell n of a member of layer l
FilledValue(cfg, member, l, n) ==
    LET kind == CHOOSE k \in 1..Len(FilledMembers) : FilledMembers[k] = member
        size == cfg.embed_dim * (cfg.embed_dim + cfg.ff_dim + cfg.seq_length)
    IN  -(2 + n + size * (kind + Len(FilledMembers) * l))

\* a matrix of the path: <<variable or member, layer or head>>
Name(base, index) == <<base, index>>

NoName == Name("", 0)

\* a matrix of a layer, filled by its constructor
FilledMember(cfg, member, l, r, c) ==
    VMatrix(r, c, [n \in 1..(r * c) |-> FilledValue(cfg, member, l, n)])

\* the members of layer l: MultiHeadAttention, LayerNorm (norm1_, norm2_),
\* FeedForwardNetwork
LayerMembers(cfg, l) ==
    LET e == cfg.embed_dim
        f == cfg.ff_dim
    IN  (Name("W_q_", l) :> FilledMember(cfg, "W_q_", l, e, e))
        @@ (Name("W_k_", l) :> FilledMember(cfg, "W_k_", l, e, e))
        @@ (Name("W_v_", l) :> FilledMember(cfg, "W_v_", l, e, e))
        @@ (Name("W_o_", l) :> FilledMember(cfg, "W_o_", l, e, e))
        @@ (Name("gamma_", l) :> FilledMatrix(1, e, OneValue))
        @@ (Name("beta_", l) :> FilledMatrix(1, e, ZeroValue))
        @@ (Name("W1_", l) :> FilledMember(cfg, "W1_", l, e, f))
        @@ (Name("b1_", l) :> FilledMember(cfg, "b1_", l, 1, f))
        @@ (Name("W2_", l) :> FilledMember(cfg, "W2_", l, f, e))
        @@ (Name("b2_", l) :> FilledMember(cfg, "b2_", l, 1, e))

RECURSIVE MembersFrom(_, _)
MembersFrom(cfg, l) ==
    IF l >= cfg.num_layers THEN [n \in {} |-> NoObject]
    ELSE LayerMembers(cfg, l) @@ MembersFrom(cfg, l + 1)

\* the encoder after construction and the caller's input
EncoderMemory(cfg) ==
    (Name("input", 0) :>
        FilledMember(cfg, "input", 0, cfg.seq_length, cfg.embed_dim))
    @@ MembersFrom(cfg, 0)

\* a statement: what it does, the matrix it builds, the matrices it reads
PathStatement(op, dst, a, b, c) ==
    [op |-> op, dst |-> dst, a |-> a, b |-> b, c |-> c]

\* scaled_dot_product_attention(Q_heads[h], K_heads[h], V_heads[h], false)
HeadStatements(h) ==
    <<PathStatement("transpose", Name("K_T", 0), Name("K_heads", h), NoName, NoName),
      PathStatement("scores", Name("scores", 0), Name("Q_heads", h),
                    Name("K_T", 0), NoName),
      PathStatement("softmax", Name("attention_weights", 0), Name("scores", 0),
                    NoName, NoName),
      PathStatement("multiply", Name("attention_outputs", h),
                    Name("attention_weights", 0), Name("V_heads", h), NoName)>>

\* for (size_t h = 0; h < config_.num_heads; ++h)
RECURSIVE HeadLoop(_, _)
HeadLoop(cfg, h) ==
    IF h >= cfg.num_heads THEN <<>>
    ELSE HeadStatements(h) \o HeadLoop(cfg, h + 1)

\* MultiHeadAttention::forward_serial of layer l
AttentionStatements(cfg, l) ==
    <<PathStatement("multiply", Name("Q", 0), Name("current_output", 0),
                    Name("W_q_", l), NoName),
      PathStatement("multiply", Name("K", 0), Name("current_output", 0),
                    Name("W_k_", l), NoName),
      PathStatement("multiply", Name("V", 0), Name("current_output", 0),
                    Name("W_v_", l), NoName),
      PathStatement("split", Name("Q_heads", 0), Name("Q", 0), NoName, NoName),
      PathStatement("split", Name("K_heads", 0), Name("K", 0), NoName, NoName),
      PathStatement("split", Name("V_heads", 0), Name("V", 0), NoName, NoName)>>
    \o HeadLoop(cfg, 0)
    \o <<PathStatement("concat", Name("concat_output", 0),
                       Name("attention_outputs", 0), NoName, NoName),
         PathStatement("multiply", Name("attention_output", 0),
                       Name("concat_output", 0), Name("W_o_", l), NoName)>>

\* FeedForwardNetwork::forward_serial of layer l
FfnStatements(l) ==
    <<PathStatement("multiply", Name("hidden", 0), Name("norm1_output", 0),
                    Name("W1_", l), NoName),
      PathStatement("bias", Name("hidden", 0), Name("hidden", 0),
                    Name("b1_", l), NoName),
      PathStatement("relu", Name("activated", 0), Name("hidden", 0), NoName, NoName),
      PathStatement("multiply", Name("ffn_output", 0), Name("activated", 0),
                    Name("W2_", l), NoName),
      PathStatement("bias", Name("ffn_output", 0), Name("ffn_output", 0),
                    Name("b2_", l), NoName)>>

\* TransformerEncoderLayer::forward_serial of layer l, and
\* current_output = layers_[l]->forward_serial(current_output)
LayerStatements(cfg, l) ==
    AttentionStatements(cfg, l)
    \o <<PathStatement("add", Name("residual1", 0), Name("current_output", 0),
                       Name("attention_output", 0), NoName),
         PathStatement("norm", Name("norm1_output", 0), Name("residual1", 0),
                       Name("gamma_", l), Name("beta_", l))>>
    \o FfnStatements(l)
    \o <<PathStatement("add", Name("residual2", 0), Name("norm1_output", 0),
                       Name("ffn_output", 0), NoName),
         PathStatement("norm", Name("norm2_output", 0), Name("residual2", 0),
                       Name("gamma_", l), Name("beta_", l)),
         PathStatement("move", Name("current_output", 0),
                       Name("norm2_output", 0), NoName, NoName)>>

\* for (size_t i = 0; i < layers_.size(); ++i)
RECURSIVE LayerLoop(_, _)
LayerLoop(cfg, l) ==
    IF l >= cfg.num_layers THEN <<>>
    ELSE LayerStatements(cfg, l) \o LayerLoop(cfg, l + 1)

\* the statements of TransformerEncoder::forward_serial after
\* Matrix current_output = input
PathProgram(cfg) == LayerLoop(cfg, 0)

\* heads[h] of a vector of matrices
HeadOf(name, h) == Name(name[1], h)

\* The matrices a statement builds before its loop: Matrix result(rows,
\* cols), and std::vector<Matrix> heads(num_heads, Matrix(seq_length,
\* head_dim_)) before split_heads.
Built(stmt, cfg, mem) ==
    LET a == mem[stmt.a]
    IN  CASE stmt.op = "multiply" ->
                stmt.dst :> FilledMatrix(a.rows, mem[stmt.b].cols, ZeroValue)
          [] stmt.op = "scores" ->
                stmt.dst :> FilledMatrix(a.rows, mem[stmt.b].cols, ZeroValue)
          [] stmt.op = "transpose" ->
                stmt.dst :> FilledMatrix(a.cols, a.rows, ZeroValue)
          [] stmt.op \in {"add", "relu", "softmax", "norm"} ->
                stmt.dst :> FilledMatrix(a.rows, a.cols, ZeroValue)
          [] stmt.op = "split" ->
                [n \in {HeadOf(stmt.dst, h) : h \in 0..(cfg.num_heads - 1)} |->
                    FilledMatrix(cfg.seq_length, HeadDim(cfg), ZeroValue)]
          [] stmt.op = "concat" ->
                stmt.dst :> FilledMatrix(cfg.seq_length, cfg.embed_dim, ZeroValue)
          [] OTHER -> [n \in {} |-> NoObject]

\* the iterations of the loop of a statement, numbered in program order
PathIterations(stmt, cfg, mem) ==
    LET a == mem[stmt.a]
    IN  CASE stmt.op \in {"multiply", "scores"} -> a.rows * mem[stmt.b].cols
          [] stmt.op \in {"split", "concat"} -> cfg.num_heads * cfg.seq_length
          [] stmt.op \in {"transpose", "add", "relu", "bias"} -> a.rows * a.cols
          [] stmt.op \in {"softmax", "norm"} -> a.rows
          [] stmt.op = "move" -> 1

\* the loop is a worksharing loop and its if clause holds: operator* above
\* the threshold, operator+ and transpose above it, split_heads and
\* concat_heads when omp_in_parallel() is false, as it is in the thread
\* that runs the serial path
PathEngaged(stmt, mem) ==
    LET a == mem[stmt.a]
    IN  CASE stmt.op = "multiply" ->
                a.rows * mem[stmt.b].cols * a.cols > PAR_THRESHOLD
          [] stmt.op \in {"add", "transpose"} -> a.rows * a.cols > PAR_THRESHOLD
          [] stmt.op \in {"split", "concat"} -> TRUE
          [] OTHER -> FALSE

\* the operands of the k loop, in the order they are read:
\* a(i, 0), b(0, j), a(i, 1), b(1, j), ...
DotOperands(a, b, i, j) ==
    [n \in 1..(2 * a.cols) |->
        IF n % 2 = 1 THEN At(a, i, (n - 1) \div 2) ELSE At(b, (n - 1) \div 2, j)]

\* data_[at] of the matrix name receives the float of term; the term
\* "copy" stands for the float it carries
Write(name, at, term) == [name |-> name, at |-> at, term |-> term]

Copy(value) == Term("copy", value, <<>>)

\* the body of the loop of concat_heads with the row of the destination
\* lost: every iteration of a head writes row 0 of result
ConcatBody_SharedRow(dst, head, h, i, d, cols) ==
    [j \in 1..d |->
        Write(dst, h * d + j, Copy(At(head, i, j - 1)))]

\* The body of the collapse(2) loop of concat_heads for head h and row i:
\* result(i, h * head_dim_ + j) = heads[h](i, j), j = 0 .. head_dim_ - 1
ConcatBody(dst, head, h, i, d, cols) ==
    [j \in 1..d |->
        Write(dst, i * cols + h * d + j, Copy(At(head, i, j - 1)))]

\* The body of the collapse(2) loop of split_heads for head h and row i:
\* heads[h](i, j) = input(i, h * head_dim_ + j), j = 0 .. head_dim_ - 1
SplitBody(heads, input, h, i, d) ==
    [j \in 1..d |->
        Write(HeadOf(heads, h), i * d + j, Copy(At(input, i, h * d + j - 1)))]

\* The cells iteration it of a statement writes, and the expression each
\* receives, over the values the iteration reads.
PathWrites(stmt, it, cfg, mem) ==
    LET a == mem[stmt.a]
        d == HeadDim(cfg)
    IN  CASE stmt.op = "multiply" ->
                \* float sum = 0.0f; sum += (*this)(i, k) * other(k, j);
                \* result(i, j) = sum
                LET b == mem[stmt.b]
                IN  <<Write(stmt.dst, it + 1,
                            Term("dot", 0,
                                 DotOperands(a, b, it \div b.cols, it % b.cols)))>>
          [] stmt.op = "scores" ->
                \* sum += Q(i, k) * K_T(k, j); scores(i, j) = sum * scale,
                \* scale = 1.0f / std::sqrt(head_dim_)
                LET b == mem[stmt.b]
                IN  <<Write(stmt.dst, it + 1,
                            Term("scaled_dot", d,
                                 DotOperands(a, b, it \div b.cols, it % b.cols)))>>
          [] stmt.op = "transpose" ->
                \* result(j, i) = (*this)(i, j)
                LET i == it \div a.cols
                    j == it % a.cols
                IN  <<Write(stmt.dst, j * a.rows + i + 1, Copy(At(a, i, j)))>>
          [] stmt.op = "add" ->
                \* result.data_[i] = data_[i] + other.data_[i]
                <<Write(stmt.dst, it + 1,
                        Term("add", 0, <<a.data[it + 1], mem[stmt.b].data[it + 1]>>))>>
          [] stmt.op = "bias" ->
                \* hidden(i, j) += b1_(0, j)
                <<Write(stmt.dst, it + 1,
                        Term("add", 0, <<a.data[it + 1],
                                         At(mem[stmt.b], 0, it % a.cols)>>))>>
          [] stmt.op = "relu" ->
                \* result.data()[i] = std::max(0.0f, input.data()[i])
                <<Write(stmt.dst, it + 1, Term("relu", 0, <<a.data[it + 1]>>))>>
          [] stmt.op = "softmax" ->
                \* max_val, the exponentials, their sum and the division, of
                \* row it
                [j \in 1..a.cols |->
                    Write(stmt.dst, it * a.cols + j,
                          Term("softmax", j - 1, RowValues(a, it)))]
          [] stmt.op = "norm" ->
                \* mean, variance, std_dev of row it, and
                \* result(i, j) = gamma_(0, j) * normalized + beta_(0, j)
                [j \in 1..a.cols |->
                    Write(stmt.dst, it * a.cols + j,
                          Term("norm", j - 1,
                               RowValues(a, it)
                                  \o <<At(mem[stmt.b], 0, j - 1),
                                       At(mem[stmt.c], 0, j - 1)>>))]
          [] stmt.op = "split" ->
                \* heads[h](i, j) = input(i, h * head_dim_ + j)
                LET h == it \div cfg.seq_length
                    i == it % cfg.seq_length
                IN  SplitBody(stmt.dst, a, h, i, d)
          [] stmt.op = "concat" ->
                \* result(i, h * head_dim_ + j) = heads[h](i, j)
                LET h == it \div cfg.seq_length
                    i == it % cfg.seq_length
                IN  ConcatBody(stmt.dst, mem[HeadOf(stmt.a, h)], h, i, d,
                               cfg.embed_dim)
          [] stmt.op = "move" -> <<>>

\* the table with the float of a term in it
Interned(table, term) ==
    IF term.op = "copy" \/ \E n \in 1..Len(table) : table[n] = term
    THEN table
    ELSE Append(table, term)

\* the value of the float of a term
ValueOf(table, term) ==
    IF term.op = "copy" THEN term.id
    ELSE CHOOSE n \in 1..Len(table) : table[n] = term

\* memory and table after the writes from the n-th on
RECURSIVE Written(_, _, _, _)
Written(mem, table, writes, n) ==
    IF n > Len(writes) THEN <<mem, table>>
    ELSE LET w == writes[n]
             t == Interned(table, w.term)
         IN  Written([mem EXCEPT ![w.name].data[w.at] = ValueOf(t, w.term)],
                     t, writes, n + 1)

\* memory and table after iteration it of a statement
AfterIteration(stmt, it, cfg, mem, table) ==
    IF stmt.op = "move"
    THEN <<(stmt.dst :> mem[stmt.a]) @@ mem, table>>
    ELSE Written(mem, table, PathWrites(stmt, it, cfg, mem), 1)

\* the running statement
PathAt == PathProgram(pCfg)[pPc]

\* An iteration may run next: any left when the loop is engaged and the
\* team has several threads, the first left in program order otherwise.
PathMayRun(it) ==
    /\ it \in pPending
    /\ (~PathEngaged(PathAt, pMem) \/ num_threads = 1) => it = Min(pPending)

InitPath ==
    /\ pCfg \in PathConfigs
    /\ num_threads \in 1..MaxThreads
    /\ pCalls = 0
    /\ pPc = 0
    /\ pPhase = "idle"
    /\ pPending = {}
    /\ pMem = EncoderMemory(pCfg)
    /\ pTable = <<>>
    /\ pOut = <<>>
    /\ pFirst = <<>>
    /\ EncAtRest
    /\ VerifyAtRest
    /\ KernelAtRest
    /\ HeadsAtRest
    /\ BlockedAtRest
    /\ RandAtRest
    /\ MatrixAtRest
    /\ ComponentAtRest
    /\ RegionAtRest
    /\ SoftmaxAtRest

\* Utils::set_thread_count(n), between calls
PathSetThreadCount ==
    /\ pPhase = "idle"
    /\ pCalls < MaxCalls
    /\ \E n \in 1..MaxThreads :
          /\ n # num_threads
          /\ num_threads' = n
    /\ UNCHANGED <<notPathVars, pathVars>>

\* encoder.forward(input, false): the dimensions of input are those of the
\* configuration; Matrix current_output = input
PathForward ==
    /\ pPhase = "idle"
    /\ pCalls < MaxCalls
    /\ SerialInputMatches(pCfg, <<pMem[Name("input", 0)].rows,
                                  pMem[Name("input", 0)].cols>>)
    /\ pCalls' = pCalls + 1
    /\ pMem' = (Name("current_output", 0) :> CopyOf(pMem[Name("input", 0)])) @@ pMem
    /\ pPc' = 1
    /\ pPhase' = "at"
    /\ UNCHANGED <<notPathVars, num_threads, pCfg, pPending, pTable, pOut, pFirst>>

\* a statement begins: its result is built and its loop starts
PathStatementStart ==
    /\ pPhase = "at"
    /\ pPc <= Len(PathProgram(pCfg))
    /\ pMem' = Built(PathAt, pCfg, pMem) @@ pMem
    /\ pPending' = 0..(PathIterations(PathAt, pCfg, pMem) - 1)
    /\ pPhase' = "loop"
    /\ UNCHANGED <<notPathVars, num_threads, pCfg, pCalls, pPc, pTable, pOut, pFirst>>

\* a thread runs one iteration of the loop
PathIterationRun ==
    /\ pPhase = "loop"
    /\ \E it \in pPending :
          /\ PathMayRun(it)
          /\ LET after == AfterIteration(PathAt, it, pCfg, pMem, pTable)
             IN  /\ pMem' = after[1]
                 /\ pTable' = after[2]
          /\ pPending' = pPending \ {it}
    /\ UNCHANGED <<notPathVars, num_threads, pCfg, pCalls, pPc, pPhase, pOut, pFirst>>

\* the loop is over (the implicit barrier of a worksharing loop): the next
\* statement
PathStatementEnd ==
    /\ pPhase = "loop"
    /\ Joined(pPending)
    /\ pPc' = pPc + 1
    /\ pPhase' = "at"
    /\ pPending' = {}
    /\ UNCHANGED <<notPathVars, num_threads, pCfg, pCalls, pMem, pTable, pOut, pFirst>>

\* return current_output: the locals of the call are gone
PathReturn ==
    /\ pPhase = "at"
    /\ pPc > Len(PathProgram(pCfg))
    /\ pOut' = pMem[Name("current_output", 0)]
    /\ pFirst' = IF pCalls = 1 THEN pMem[Name("current_output", 0)] ELSE pFirst
    /\ pMem' = [n \in DOMAIN EncoderMemory(pCfg) |-> pMem[n]]
    /\ pPc' = 0
    /\ pPhase' = "idle"
    /\ UNCHANGED <<notPathVars, num_threads, pCfg, pCalls, pPending, pTable>>

NextPath ==
    \/ PathSetThreadCount
    \/ PathForward
    \/ PathStatementStart
    \/ PathIterationRun
    \/ PathStatementEnd
    \/ PathReturn

InitSerial == InitPath \/ InitKernel

NextSerial == NextPath \/ NextKernel

SpecSerial == InitSerial /\ [][NextSerial]_vars

\* For a fixed encoder and a fixed input every later call of the serial
\* path returns what the first call returned.
PathOutputRepeats ==
    (pPhase = "idle" /\ pCalls >= 2) => pOut = pFirst

\* C10: for a fixed encoder instance and a fixed input the serial-path
\* output is the same bit for bit on every call, for every worker count and
\* every interleaving of the worker threads: every later call of
\* Encoder.forward on the serial path returns what the first call returned,
\* and so does every later product of operator* when its loop is parallel.
C10_SerialOutputRepeats ==
    /\ PathOutputRepeats
    /\ KernelProductRepeats

\* C10 witness: the second call, made with several threads, has gone through
\* two layers of two heads on an input of two rows (the loops of split_heads
\* and concat_heads have four iterations each) and has returned a matrix no
\* cell of which is an input cell.
C10_Witness ==
    /\ pPhase = "idle"
    /\ pCalls = 2
    /\ num_threads > 1
    /\ pCfg.num_layers = 2
    /\ pCfg.num_heads = 2
    /\ pCfg.seq_length = 2
    /\ Len(pOut.data) = 4
    /\ \A n \in 1..4 : pOut.data[n] > 0

====
